---- MODULE Spec2Model ----
(***************************************************************************)
(* refstore: the central repository (RepositoryStore), its git history,    *)
(* the multi-registry resolver and the project synchronizer (cli/sync).    *)
(*                                                                         *)
(* Files are pairs <<path, data>>; a path is a sequence of tokens so that  *)
(* glob matching is computed on the path text.  A directory tree is a set  *)
(* of such pairs; Absent stands for a path that does not exist on disk.    *)
(***************************************************************************)
EXTENDS Integers, Sequences, FiniteSets, TLC

\* ---------------------------------------------------------------- bounds
MaxRefCommits == 2
MaxRegCommits == 3
MaxSyncs == 2
MaxBundleCommits == 2
MaxTargetCommits == 1

\* ------------------------------------------------------------ vocabulary
Names == {"a", "b"}
EmptyName == ""
SlashName == "x/y"
AddNames == Names \cup {EmptyName, SlashName}
RegNames == {"r1", "r2"}
AddRegNames == RegNames \cup {"local", SlashName}
TagNames == {"v1"}

\* A directory on disk: ex says whether it exists, files what is under it.
Absent == [ex |-> FALSE, files |-> {}]
Dir(t) == [ex |-> TRUE, files |-> t]

\* Hashes are numbers: H1, H2 are commits of the cloned upstream repository,
\* RootHash(n) is the n-th commit of the repository root; NoSum is None.
NoSum == 0
H1 == 101
H2 == 102
RootHash(n) == 1000 + n

NoPath == <<>>
NoVersion == ""

README == <<"README", ".md">>
LIBRS == <<"src", "/", "lib", ".rs">>
UTILRS == <<"src", "/", "util", ".rs">>
NOTES == <<"docs", "/", "notes", ".txt">>
GUIDE == <<"docs", "/", "guide", ".md">>
SAMPLETXT == <<"sample", ".txt">>
GITHEAD == <<".git", "/", "HEAD">>

TreeV1 == {<<README, 1>>, <<LIBRS, 1>>, <<UTILRS, 1>>, <<GUIDE, 1>>, <<NOTES, 1>>}
TreeV2 == {<<README, 2>>, <<LIBRS, 1>>}
Checkout == {<<README, 1>>, <<GITHEAD, H1>>}
CheckoutDirty == {<<README, 2>>, <<GITHEAD, H1>>}
EmptyTree == {}
Clone1 == {<<README, 1>>, <<LIBRS, 1>>, <<GITHEAD, H1>>}
Clone2 == {<<README, 2>>, <<GITHEAD, H2>>}

\* What a source looks like to the process at the moment it is read.
Missing == [type |-> "missing"]
FileAt(d) == [type |-> "file", base |-> SAMPLETXT, data |-> d]
DirAt(t) == [type |-> "dir", tree |-> t]
RepoAt(t) == [type |-> "repo", tree |-> t]
\* a directory with an entry that cannot be copied (a dangling symlink, an
\* unreadable file); t is what the walk copies before it gets there
BrokenDirAt(t) == [type |-> "broken", tree |-> t]

LocalStates == {Missing, FileAt(1), DirAt(TreeV1), DirAt(TreeV2), DirAt(Checkout),
                DirAt(CheckoutDirty), DirAt(EmptyTree)}
GitStates == {Missing, RepoAt(Clone1), RepoAt(Clone2)}

LocalSource == [type |-> "local", path |-> "p"]
GitSource == [type |-> "git", url |-> "u"]
RemoteSource == [type |-> "remote", url |-> "w"]
Sources == {LocalSource, GitSource, RemoteSource}

SourceStates(source) ==
    IF source.type = "local" THEN LocalStates
    ELSE IF source.type = "git" THEN GitStates
    ELSE {Missing}

\* ---------------------------------------------------------- path helpers
IsPrefix(p, s) == Len(p) <= Len(s) /\ SubSeq(s, 1, Len(p)) = p

Paths(tree) == {f[1] : f \in tree}

\* src/git/mod.rs is_git_repo: path.join(".git").exists()
is_git_repo(d) == d.ex /\ \E f \in d.files : f[1][1] = ".git"

\* HEAD of a directory that has its own .git
OwnHead(tree) == (CHOOSE f \in tree : f[1] = GITHEAD)[2]

\* src/git/mod.rs strip_git_dir: remove <path>/.git
strip_git_dir(tree) == {f \in tree : f[1][1] # ".git"}

\* copying src over an existing directory: same path is overwritten
Overlay(old, new) == {f \in old : f[1] \notin Paths(new)} \cup new

\* ------------------------------------------------------------- validate
NameChars(n) ==
    IF n = EmptyName THEN <<>>
    ELSE IF n = SlashName THEN <<"x", "/", "y">>
    ELSE IF n = "local" THEN <<"l", "o", "c", "a", "l">>
    ELSE IF n = "r1" THEN <<"r", "1">>
    ELSE IF n = "r2" THEN <<"r", "2">>
    ELSE IF n = "k1" THEN <<"k", "1">>
    ELSE IF n = "k2" THEN <<"k", "2">>
    ELSE <<n>>

AllowedChars == {"a", "b", "c", "k", "l", "o", "r", "x", "y", "1", "2", "-", "_", "."}

validate_name(n) ==
    /\ NameChars(n) # <<>>
    /\ \A i \in 1..Len(NameChars(n)) : NameChars(n)[i] \in AllowedChars


\* ------------------------------------------------------------ references
Metas == {"m1"}

\* src/cli/store.rs parse_source: the kind follows from what the source is
ParseKind(source, st) ==
    IF source.type = "git" THEN "git_repo"
    ELSE IF st.type = "file" THEN "file"
    ELSE "directory"

\* src/cli/store.rs run_add: the Reference handed to RepositoryStore::add
NewReference(name, source, st, meta, now) ==
    [name |-> name, kind |-> ParseKind(source, st), source |-> source, meta |-> meta,
     checksum |-> NoSum, last_synced |-> now]

NoRef == [name |-> "", kind |-> "", source |-> RemoteSource, meta |-> "",
          checksum |-> NoSum, last_synced |-> 0]

\* The attached registries are read-only clones of fixed upstream registries:
\* r1 defines a, r2 defines a and b.
RemoteNames(r) == IF r = "r1" THEN {"a"} ELSE {"a", "b"}
RemoteRef(r, n) ==
    [name |-> n, kind |-> "directory", source |-> LocalSource, meta |-> r,
     checksum |-> NoSum, last_synced |-> 0]
RemoteTree(r, n) == {<<README, IF r = "r1" THEN 7 ELSE 8>>}

\* ------------------------------------------------------------ repository
VARIABLES
    index,      \* local.index.references: name -> Reference (BTreeMap)
    content,    \* <root>/content/<name> on disk, per name
    commits,    \* git history of the root, oldest first; HEAD is the last
    tags,       \* git tags of the root: tag -> commit number
    regDirs,    \* names n for which <root>/registries/<n> exists
    remotes,    \* RepositoryStore.remotes: sequence of registry names
    config,     \* config.registries: sequence of registry names
    last,       \* the last RepositoryStore call and its result
    bundles,    \* local.index.bundles: name -> Bundle (BTreeMap)
    root,       \* files of <root> outside git's view of content/: the lines of
                \* .gitignore, and whether config.toml exists
    targetReg   \* an external registry directory that `store push --to` writes:
                \* its saved index, its content/ and the length of its history

repoVars == <<index, content, commits, tags, regDirs, remotes, config, last, bundles, root,
              targetReg>>

\* src/store/registry.rs RegistryStore::content_path
content_path(reg, name) == <<reg, "content", name>>

\* src/store/registry.rs RegistryStore::get on the local registry
LocalGet(name) == IF name \in DOMAIN index THEN index[name] ELSE NoRef
LocalHas(name) == name \in DOMAIN index

\* src/store/registry.rs RegistryStore::get on a loaded remote
RemoteHas(r, name) == name \in RemoteNames(r)

NotFound == [found |-> FALSE, reference |-> NoRef, content_path |-> <<>>,
             registry_name |-> ""]

\* mutant of ResolveIn: a remote hit is given the local registry's content path
RECURSIVE ResolveIn_LocalPath(_, _)
ResolveIn_LocalPath(rs, name) ==
    IF rs = <<>> THEN NotFound
    ELSE IF RemoteHas(Head(rs), name)
         THEN [found |-> TRUE, reference |-> RemoteRef(Head(rs), name),
               content_path |-> content_path("local", name),
               registry_name |-> Head(rs)]
         ELSE ResolveIn_LocalPath(Tail(rs), name)

\* src/store/repository.rs resolve: the loop over self.remotes, in list order
RECURSIVE ResolveIn(_, _)
ResolveIn(rs, name) ==
    IF rs = <<>> THEN NotFound
    ELSE IF RemoteHas(Head(rs), name)
         THEN [found |-> TRUE, reference |-> RemoteRef(Head(rs), name),
               content_path |-> content_path(Head(rs), name),
               registry_name |-> Head(rs)]
         ELSE ResolveIn(Tail(rs), name)

\* mutant of ResolveWith: the remotes are searched before the local registry
ResolveWith_RemoteFirst(idx, rs, name) ==
    IF ResolveIn(rs, name).found THEN ResolveIn(rs, name)
    ELSE IF name \in DOMAIN idx
    THEN [found |-> TRUE, reference |-> idx[name],
          content_path |-> content_path("local", name), registry_name |-> "local"]
    ELSE NotFound

\* src/store/repository.rs RepositoryStore::resolve
ResolveWith(idx, rs, name) ==
    IF name \in DOMAIN idx
    THEN [found |-> TRUE, reference |-> idx[name],
          content_path |-> content_path("local", name), registry_name |-> "local"]
    ELSE ResolveIn(rs, name)

resolve(name) == ResolveWith(index, remotes, name)

\* src/store/repository.rs RepositoryStore::get
get(name) == resolve(name).reference

\* the directory a resolved content path denotes
DirAtPath(cp) ==
    IF cp = <<>> THEN Absent
    ELSE IF cp[1] = "local" THEN content[cp[3]]
    ELSE IF cp[1] \in regDirs THEN Dir(RemoteTree(cp[1], cp[3]))
    ELSE Absent

\* ------------------------------------------------------- content fetcher
\* src/store/repository.rs fetch_content, given what the source is now and
\* what is already at content_dir
fetch_content(reference, existing, st) ==
    IF reference.source.type = "local" THEN
        IF st.type = "file"
        THEN [ok |-> TRUE, dir |-> Dir(Overlay(existing.files, {<<st.base, st.data>>}))]
        ELSE IF st.type = "dir"
        THEN [ok |-> TRUE, dir |-> Dir(Overlay(existing.files, st.tree))]
        ELSE IF st.type = "broken"
        THEN [ok |-> FALSE, dir |-> Dir(Overlay(existing.files, st.tree))]
        ELSE [ok |-> FALSE, dir |-> existing]
    ELSE IF reference.source.type = "git" THEN
        IF st.type # "repo" \/ (existing.ex /\ existing.files # {})
        THEN [ok |-> FALSE, dir |-> existing]
        ELSE [ok |-> TRUE, dir |-> Dir(strip_git_dir(st.tree))]
    ELSE [ok |-> FALSE, dir |-> existing]


\* ------------------------------------------------------------ git history
\* What git records for content/<name>: nothing for a missing or empty
\* directory, a gitlink (no files) for a directory that has its own .git,
\* the files otherwise.
Committable(d) ==
    IF ~d.ex \/ d.files = {} THEN [kind |-> "absent", files |-> {}]
    ELSE IF is_git_repo(d) THEN [kind |-> "gitlink", files |-> {}]
    ELSE [kind |-> "tree", files |-> d.files]

HeadOf(cs) == cs[Len(cs)]

\* the files of <root> itself that a commit can hold
GITIGNORE == ".gitignore"
CONFIGTOML == "config.toml"
INDEXTOML == "index.toml"
GITMODULES == ".gitmodules"

\* whether a line of .gitignore excludes the file f of <root> (lines are
\* held as the program writes them, without surrounding blanks)
Ignored(lines, f) == \E i \in 1..Len(lines) : lines[i] = f

\* git add <paths>: the files tracked afterwards; a file that is not
\* tracked yet and that .gitignore excludes is not added
GitAdd(tracked, paths, lines) == tracked \cup {f \in paths : ~Ignored(lines, f)}

\* src/git/mod.rs ensure_gitignore with the one pattern config.toml: the
\* pattern is appended unless a line equals it
ensure_gitignore_Skip(lines) == lines
ensure_gitignore(lines) ==
    IF \E i \in 1..Len(lines) : lines[i] = CONFIGTOML THEN lines
    ELSE Append(lines, CONFIGTOML)

\* src/store/repository.rs save_config: config.toml is written
save_config(r) == [r EXCEPT !.config = TRUE]

\* git add <paths>; git diff --cached --quiet; git commit -m <msg>
\* for the paths content/<name> and index.toml
StageAndCommit(cs, wc, idx, name, msg) ==
    LET head == HeadOf(cs)
        staged == [msg |-> msg,
                   content |-> [head.content EXCEPT ![name] = Committable(wc[name])],
                   index |-> idx, regs |-> head.regs, bundles |-> bundles,
                   files |-> GitAdd(head.files, {INDEXTOML}, root.gitignore)]
    IN IF ~wc[name].ex /\ head.content[name].kind = "absent"
       THEN [ok |-> FALSE, commits |-> cs]
       ELSE IF /\ staged.content = head.content /\ staged.index = head.index
               /\ staged.bundles = head.bundles /\ staged.files = head.files
       THEN [ok |-> TRUE, commits |-> cs]
       ELSE [ok |-> TRUE, commits |-> Append(cs, staged)]

\* src/git/mod.rs commit
commit(cs, wc, idx, name, msg) == StageAndCommit(cs, wc, idx, name, msg)

\* src/git/mod.rs commit_removals
commit_removals(cs, wc, idx, name, msg) == StageAndCommit(cs, wc, idx, name, msg)

\* git commit of .gitmodules and registries/<name>
CommitRegs(cs, regs, msg) ==
    LET head == HeadOf(cs)
    IN IF regs = head.regs THEN cs
       ELSE Append(cs, [msg |-> msg, content |-> head.content, index |-> head.index,
                        regs |-> regs, bundles |-> head.bundles,
                        files |-> GitAdd(head.files, {GITMODULES}, root.gitignore)])

\* src/git/mod.rs head_hash run inside the repository root's work tree: a
\* directory with its own .git answers for itself, any other directory is
\* answered by the enclosing repository
head_hash(d, cs) == IF is_git_repo(d) THEN OwnHead(d.files) ELSE RootHash(Len(cs))

\* src/git/mod.rs ref_exists
ref_exists(version) == version \in TagNames /\ tags[version] # 0

Insert(f, k, v) == [x \in DOMAIN f \cup {k} |-> IF x = k THEN v ELSE f[x]]
Drop(f, k) == [x \in DOMAIN f \ {k} |-> f[x]]

\* src/model/bundle.rs Bundle; meta stands for description, tags and created_at
NewBundle(name, refs, meta) == [name |-> name, references |-> refs, meta |-> meta]
NoBundle == NewBundle("", <<>>, "")

\* the call that was made last, whether it returned Ok, and for a successful
\* add the Reference that was passed in
Result(op, name, ok, arg) ==
    [op |-> op, name |-> name, ok |-> ok, arg |-> IF op = "add" /\ ok THEN arg ELSE NoRef,
     bundle |-> NoBundle, rm |-> <<>>, filter |-> <<>>, refs |-> <<>>]

\* a bundle call: the Bundle passed to add_bundle, or for update_bundle the
\* add list and description (in bundle) and the remove list (in rm)
BundleResult(op, name, ok, bundle, rm) ==
    [op |-> op, name |-> name, ok |-> ok, arg |-> NoRef, bundle |-> bundle, rm |-> rm,
     filter |-> <<>>, refs |-> <<>>]

\* a list call: its filters and the sequence it returned
ListResult(tag, kind, refs) ==
    [op |-> "list", name |-> "", ok |-> TRUE, arg |-> NoRef, bundle |-> NoBundle,
     rm |-> <<>>, filter |-> <<tag, kind>>, refs |-> refs]

RefMessages == {"Add reference", "Remove reference", "Update reference"}
RegMessages == {"Add registry", "Remove registry"}
CountCommits(cs, kinds) == Cardinality({i \in 1..Len(cs) : cs[i].msg[1] \in kinds})
RefBudget == CountCommits(commits, RefMessages) < MaxRefCommits
RegBudget == CountCommits(commits, RegMessages) < MaxRegCommits
BundleMessages == {"Add bundle", "Update bundle", "Remove bundle"}
BundleBudget == CountCommits(commits, BundleMessages) < MaxBundleCommits

\* ------------------------------------------------- local registry writes
\* src/store/repository.rs RepositoryStore::add
Add(name, source, st, meta) ==
    LET reference == NewReference(name, source, st, meta, Len(commits))
    IN
    /\ RefBudget
    /\ IF LocalHas(name) \/ ~validate_name(name)
       THEN /\ last' = Result("add", name, FALSE, reference)
            /\ UNCHANGED <<index, content, commits>>
       ELSE LET fetched == fetch_content(reference, content[name], st)
                idx == Insert(index, name, reference)
                wc == [content EXCEPT ![name] = fetched.dir]
                done == commit(commits, wc, idx, name, <<"Add reference", name>>)
            IN IF ~fetched.ok
               THEN /\ last' = Result("add", name, FALSE, reference)
                    /\ content' = wc
                    /\ UNCHANGED <<index, commits>>
               ELSE /\ index' = idx
                    /\ content' = wc
                    /\ commits' = done.commits
                    /\ last' = Result("add", name, done.ok, reference)
    /\ UNCHANGED <<tags, regDirs, remotes, config, bundles, root, targetReg>>

\* mutant of Remove: the content directory is left on disk
Remove_KeepsContent(name) ==
    /\ RefBudget
    /\ IF ~LocalHas(name)
       THEN /\ last' = Result("remove", name, FALSE, NoRef)
            /\ UNCHANGED <<index, content, commits>>
       ELSE LET idx == Drop(index, name)
                done == commit_removals(commits, content, idx, name, <<"Remove reference", name>>)
            IN /\ index' = idx
               /\ content' = content
               /\ commits' = done.commits
               /\ last' = Result("remove", name, done.ok, index[name])
    /\ UNCHANGED <<tags, regDirs, remotes, config, bundles, root, targetReg>>

\* src/store/repository.rs RepositoryStore::remove
Remove(name) ==
    /\ RefBudget
    /\ IF ~LocalHas(name)
       THEN /\ last' = Result("remove", name, FALSE, NoRef)
            /\ UNCHANGED <<index, content, commits>>
       ELSE LET idx == Drop(index, name)
                wc == [content EXCEPT ![name] = Absent]
                done == commit_removals(commits, wc, idx, name, <<"Remove reference", name>>)
            IN /\ index' = idx
               /\ content' = wc
               /\ commits' = done.commits
               /\ last' = Result("remove", name, done.ok, index[name])
    /\ UNCHANGED <<tags, regDirs, remotes, config, bundles, root, targetReg>>

\* src/store/repository.rs RepositoryStore::update
Update(name, st) ==
    /\ RefBudget
    /\ IF ~LocalHas(name)
       THEN /\ last' = Result("update", name, FALSE, NoRef)
            /\ UNCHANGED <<index, content, commits>>
       ELSE LET reference == index[name]
                fetched == fetch_content(reference, Absent, st)
                wc == [content EXCEPT ![name] = fetched.dir]
                sum == IF reference.source.type = "git"
                       THEN head_hash(fetched.dir, commits)
                       ELSE reference.checksum
                idx == [index EXCEPT ![name].last_synced = Len(commits),
                                     ![name].checksum = sum]
                done == commit_removals(commits, wc, idx, name, <<"Update reference", name>>)
            IN IF ~fetched.ok
               THEN /\ last' = Result("update", name, FALSE, reference)
                    /\ content' = wc
                    /\ UNCHANGED <<index, commits>>
               ELSE /\ index' = idx
                    /\ content' = wc
                    /\ commits' = done.commits
                    /\ last' = Result("update", name, done.ok, reference)
    /\ UNCHANGED <<tags, regDirs, remotes, config, bundles, root, targetReg>>

\* RepositoryStore::add up to save_index, with git::commit returning an
\* error from its first `git add` (the index is locked by another git
\* process, or the process is killed there): content/<name> and index.toml
\* are written, nothing is staged and nothing committed
AddInterrupted(name, source, st, meta) ==
    LET reference == NewReference(name, source, st, meta, Len(commits))
        fetched == fetch_content(reference, content[name], st)
    IN
    /\ ~LocalHas(name) /\ validate_name(name) /\ fetched.ok
    /\ index' = Insert(index, name, reference)
    /\ content' = [content EXCEPT ![name] = fetched.dir]
    /\ last' = Result("add", name, FALSE, reference)
    /\ UNCHANGED <<commits, tags, regDirs, remotes, config, bundles, root, targetReg>>

\* RepositoryStore::update up to save_index, with git::commit_removals
\* returning an error from its first `git add -A`
UpdateInterrupted(name, st) ==
    LET reference == LocalGet(name)
        fetched == fetch_content(reference, Absent, st)
        sum == IF reference.source.type = "git" THEN head_hash(fetched.dir, commits)
               ELSE reference.checksum
    IN
    /\ LocalHas(name) /\ fetched.ok
    /\ index' = [index EXCEPT ![name].last_synced = Len(commits), ![name].checksum = sum]
    /\ content' = [content EXCEPT ![name] = fetched.dir]
    /\ last' = Result("update", name, FALSE, reference)
    /\ UNCHANGED <<commits, tags, regDirs, remotes, config, bundles, root, targetReg>>

\* src/store/repository.rs RepositoryStore::create_tag (git tag <tag>)
CreateTag(tag) ==
    /\ IF tags[tag] # 0
       THEN /\ last' = Result("tag", tag, FALSE, NoRef)
            /\ UNCHANGED tags
       ELSE /\ tags' = [tags EXCEPT ![tag] = Len(commits)]
            /\ last' = Result("tag", tag, TRUE, NoRef)
    /\ UNCHANGED <<index, content, commits, regDirs, remotes, config, bundles, root, targetReg>>


\* ---------------------------------------------------- registry management
Rank(r) == IF r = "r1" THEN 1 ELSE 2

RECURSIVE SortByName(_)
SortByName(S) ==
    IF S = {} THEN <<>>
    ELSE LET first == CHOOSE r \in S : \A q \in S : Rank(r) <= Rank(q)
         IN <<first>> \o SortByName(S \ {first})

\* src/store/repository.rs load_remote_registries: every registries/<name>
\* with an index.toml, sorted by name
load_remote_registries(dirs) == SortByName(dirs)

Retain_All(seq, name) == seq
Retain(seq, name) == SelectSeq(seq, LAMBDA x : x # name)

\* src/store/repository.rs RepositoryStore::add_registry, the checks made
\* before anything is touched: the name's characters, the reserved name,
\* registries/<name> on disk
RejectsRegistry_ReservedOnly(name) == ~validate_name(name) \/ name = "local"
RejectsRegistry(name) == ~validate_name(name) \/ name = "local" \/ name \in regDirs

\* src/store/repository.rs RepositoryStore::add_registry; urlOk says whether
\* git submodule add can clone the url
AddRegistry(name, urlOk) ==
    /\ RegBudget
    /\ IF RejectsRegistry(name) \/ ~urlOk
       THEN /\ last' = Result("add_registry", name, FALSE, NoRef)
            /\ UNCHANGED <<commits, regDirs, remotes, config, root>>
       ELSE /\ regDirs' = regDirs \cup {name}
            /\ commits' = CommitRegs(commits, regDirs', <<"Add registry", name>>)
            /\ remotes' = Append(remotes, name)
            /\ config' = Append(config, name)
            /\ root' = save_config(root)
            /\ last' = Result("add_registry", name, TRUE, NoRef)
    /\ UNCHANGED <<index, content, tags, bundles, targetReg>>

\* src/store/repository.rs RepositoryStore::remove_registry
RemoveRegistry(name) ==
    /\ RegBudget
    /\ IF name \notin regDirs
       THEN /\ last' = Result("remove_registry", name, FALSE, NoRef)
            /\ UNCHANGED <<commits, regDirs, remotes, config, root>>
       ELSE /\ regDirs' = regDirs \ {name}
            /\ commits' = CommitRegs(commits, regDirs', <<"Remove registry", name>>)
            /\ remotes' = Retain(remotes, name)
            /\ config' = Retain(config, name)
            /\ root' = save_config(root)
            /\ last' = Result("remove_registry", name, TRUE, NoRef)
    /\ UNCHANGED <<index, content, tags, bundles, targetReg>>

\* src/store/repository.rs RepositoryStore::update_registry(Some(name)):
\* the named store is reopened in place
UpdateRegistryOne(name) ==
    /\ last' = Result("update_registry", name, name \in regDirs, NoRef)
    /\ UNCHANGED <<index, content, commits, tags, regDirs, remotes, config, bundles, root, targetReg>>

\* src/store/repository.rs RepositoryStore::update_registry(None):
\* all remotes are reloaded from disk
UpdateRegistryAll ==
    /\ remotes' = load_remote_registries(regDirs)
    /\ last' = Result("update_registry", "", TRUE, NoRef)
    /\ UNCHANGED <<index, content, commits, tags, regDirs, config, bundles, root, targetReg>>

\* what `git add .` stages in a data directory without history: the files
\* of <root> that .gitignore does not exclude (content/ is still empty and
\* index.toml is not written before the first save)
InitialCommit(r) ==
    [msg |-> <<"Initialize refstore repository", "">>,
     content |-> [n \in Names |-> [kind |-> "absent", files |-> {}]],
     index |-> <<>>, regs |-> {}, bundles |-> <<>>,
     files |-> GitAdd({}, {GITIGNORE} \cup (IF r.config THEN {CONFIGTOML} ELSE {}),
                      r.gitignore)]

\* src/store/repository.rs RepositoryStore::open (every CLI invocation
\* starts with it): .gitignore is completed, a data directory without
\* history gets its initial commit, the remotes are loaded
Open ==
    LET ignore == [root EXCEPT !.gitignore = ensure_gitignore(root.gitignore)] IN
    /\ root' = ignore
    /\ commits' = IF commits = <<>> THEN <<InitialCommit(ignore)>> ELSE commits
    /\ remotes' = load_remote_registries(regDirs)
    /\ last' = Result("open", "", TRUE, NoRef)
    /\ UNCHANGED <<index, content, tags, regDirs, config, bundles, targetReg>>

\* src/cli/config.rs run_set on an opened repository: config.toml is
\* rewritten, nothing is committed
ConfigSet ==
    /\ root' = save_config(root)
    /\ last' = Result("config_set", "", TRUE, NoRef)
    /\ UNCHANGED <<index, content, commits, tags, regDirs, remotes, config, bundles, targetReg>>


\* --------------------------------------------------------------- bundles
BundleNames == {"k1", "k2"}
AddBundleNames == BundleNames \cup {SlashName}
BundleMetas == {"d1"}
\* Option<String> description of update_bundle: "" is None
UpdateMetas == {"", "d2"}
RefLists == {<<"a">>, <<"b", "a">>, <<"a", "a">>}
Range(q) == {q[i] : i \in 1..Len(q)}

\* the bundles a remote registry's index.toml defines
RemoteBundleNames(r) == IF r = "r2" THEN {"k1"} ELSE {}
RemoteBundle(r, name) == NewBundle(name, <<"b">>, r)

\* src/store/registry.rs RegistryStore::get_bundle on the local registry
LocalHasBundle(name) == name \in DOMAIN bundles

\* src/store/repository.rs RepositoryStore::get_bundle with a remotes list
GetBundleIn_RemoteFirst(bs, rs, name) ==
    LET hits == {i \in 1..Len(rs) : name \in RemoteBundleNames(rs[i])}
        first == CHOOSE i \in hits : \A j \in hits : i <= j
    IN IF hits # {} THEN RemoteBundle(rs[first], name)
       ELSE IF name \in DOMAIN bs THEN bs[name]
       ELSE NoBundle
GetBundleIn(bs, rs, name) ==
    LET hits == {i \in 1..Len(rs) : name \in RemoteBundleNames(rs[i])}
        first == CHOOSE i \in hits : \A j \in hits : i <= j
    IN IF name \in DOMAIN bs THEN bs[name]
       ELSE IF hits # {} THEN RemoteBundle(rs[first], name)
       ELSE NoBundle

\* src/store/repository.rs RepositoryStore::get_bundle
get_bundle(name) == GetBundleIn(bundles, remotes, name)

\* git add index.toml; git diff --cached --quiet; git commit -m <msg>
CommitIndex_DropsRegs(cs, idx, bs, msg) ==
    LET head == HeadOf(cs)
    IN IF idx = head.index /\ bs = head.bundles THEN cs
       ELSE Append(cs, [msg |-> msg, content |-> head.content, index |-> idx,
                        regs |-> {}, bundles |-> bs,
                        files |-> GitAdd(head.files, {INDEXTOML}, root.gitignore)])
CommitIndex(cs, idx, bs, msg) ==
    LET head == HeadOf(cs)
    IN IF idx = head.index /\ bs = head.bundles THEN cs
       ELSE Append(cs, [msg |-> msg, content |-> head.content, index |-> idx,
                        regs |-> head.regs, bundles |-> bs,
                        files |-> GitAdd(head.files, {INDEXTOML}, root.gitignore)])

\* src/store/repository.rs RepositoryStore::add_bundle
AddBundle(name, refs, meta) ==
    LET bundle == NewBundle(name, refs, meta)
        bs == Insert(bundles, name, bundle)
    IN
    /\ BundleBudget
    /\ IF \/ LocalHasBundle(name)
          \/ ~validate_name(name)
          \/ \E i \in 1..Len(refs) : ~resolve(refs[i]).found
       THEN /\ last' = BundleResult("add_bundle", name, FALSE, bundle, <<>>)
            /\ UNCHANGED <<bundles, commits>>
       ELSE /\ bundles' = bs
            /\ commits' = CommitIndex(commits, index, bs, <<"Add bundle", name>>)
            /\ last' = BundleResult("add_bundle", name, TRUE, bundle, <<>>)
    /\ UNCHANGED <<index, content, tags, regDirs, remotes, config, root, targetReg>>

\* src/store/repository.rs RepositoryStore::remove_bundle
RemoveBundle(name) ==
    /\ BundleBudget
    /\ IF ~LocalHasBundle(name)
       THEN /\ last' = BundleResult("remove_bundle", name, FALSE, NoBundle, <<>>)
            /\ UNCHANGED <<bundles, commits>>
       ELSE /\ bundles' = Drop(bundles, name)
            /\ commits' = CommitIndex(commits, index, Drop(bundles, name),
                                      <<"Remove bundle", name>>)
            /\ last' = BundleResult("remove_bundle", name, TRUE, NoBundle, <<>>)
    /\ UNCHANGED <<index, content, tags, regDirs, remotes, config, root, targetReg>>

\* for ref_name in add_refs { if !references.contains(..) { push } }
RECURSIVE PushMissing(_, _)
PushMissing(refs, add) ==
    IF add = <<>> THEN refs
    ELSE PushMissing(IF Head(add) \in Range(refs) THEN refs ELSE Append(refs, Head(add)),
                     Tail(add))

\* references.retain(|r| !remove_refs.contains(r))
RetainRefs(refs, remove) == SelectSeq(refs, LAMBDA r : r \notin Range(remove))

\* the bundle update_bundle leaves behind
UpdatedBundle_PushAlways(b, add, remove, desc) ==
    NewBundle(b.name, RetainRefs(b.references \o add, remove),
              IF desc # "" THEN desc ELSE b.meta)
UpdatedBundle(b, add, remove, desc) ==
    NewBundle(b.name, RetainRefs(PushMissing(b.references, add), remove),
              IF desc # "" THEN desc ELSE b.meta)

\* src/store/repository.rs RepositoryStore::update_bundle
UpdateBundle(name, add, remove, desc) ==
    LET call == NewBundle(name, add, desc)
    IN
    /\ BundleBudget
    /\ IF \/ \E i \in 1..Len(add) : ~resolve(add[i]).found
          \/ ~LocalHasBundle(name)
       THEN /\ last' = BundleResult("update_bundle", name, FALSE, call, remove)
            /\ UNCHANGED <<bundles, commits>>
       ELSE LET bs == [bundles EXCEPT ![name] = UpdatedBundle(@, add, remove, desc)]
            IN /\ bundles' = bs
               /\ commits' = CommitIndex(commits, index, bs, <<"Update bundle", name>>)
               /\ last' = BundleResult("update_bundle", name, TRUE, call, remove)
    /\ UNCHANGED <<index, content, tags, regDirs, remotes, config, root, targetReg>>

\* --------------------------------------------------------------- project
VARIABLES
    manifest,   \* ProjectStore.manifest.references: name -> ManifestEntry
    projFiles,  \* files under <project>/.references: <<directory, path, data>>
    projDirs,   \* directories under <project>/.references that exist; <<>> is
                \* .references itself
    tmp,        \* <root>/.tmp-version-extract
    sync,       \* the running (or last) `refstore sync` invocation
    mbundles,   \* ProjectStore.manifest.bundles: bundle names in listed order
    toml,       \* <project>/refstore.toml as written on disk
    pcall,      \* the last call a command made on its ProjectStore, and its result
    mcp         \* the running `refstore mcp` server (RefstoreMcpServer), if any

projVars == <<manifest, projFiles, projDirs, tmp, sync, mbundles, toml, pcall, mcp>>

\* src/model/manifest.rs ManifestEntry
Entry(path, version, include, exclude) ==
    [path |-> path, version |-> version, include |-> include, exclude |-> exclude]

DefaultEntry == Entry(NoPath, NoVersion, <<>>, <<>>)

\* glob patterns, as the token sequences of their text
G_MD == <<"*", ".md">>
G_SRC == <<"src", "/", "*">>
G_UTIL == <<"*", "/", "util", ".rs">>
G_TXT == <<"*", ".txt">>
G_DEEPMD == <<"**/", "*", ".md">>
G_ALL == <<"*">>
G_BAD == <<"[">>

\* globset Glob::new: an unclosed character class is rejected
GlobValid(pat) == \A i \in 1..Len(pat) : pat[i] # "["

\* globset matching with the default options: `*` also crosses `/`, a
\* leading `**/` stands for any number of leading directories, every other
\* token is literal
RECURSIVE GlobMatch(_, _)
GlobMatch(pat, path) ==
    IF pat = <<>> THEN path = <<>>
    ELSE IF Head(pat) = "*"
    THEN \/ GlobMatch(Tail(pat), path)
         \/ path # <<>> /\ GlobMatch(pat, Tail(path))
    ELSE IF Head(pat) = "**/"
    THEN \/ GlobMatch(Tail(pat), path)
         \/ \E i \in 1..Len(path) :
              path[i] = "/" /\ GlobMatch(Tail(pat), SubSeq(path, i + 1, Len(path)))
    ELSE path # <<>> /\ Head(path) = Head(pat) /\ GlobMatch(Tail(pat), Tail(path))

\* GlobSet::is_match
is_match(globs, path) == \E i \in 1..Len(globs) : GlobMatch(globs[i], path)

\* the nonempty prefixes of a directory and the directory: create_dir_all
Ancestors(dir) == {SubSeq(dir, 1, k) : k \in 0..Len(dir)}

\* Path::exists for a directory under .references
TargetExists(dir) == \E d \in projDirs : IsPrefix(dir, d)

\* the directory at dir, as is_git_repo and head_hash see it
TargetDir(dir) ==
    [ex |-> TargetExists(dir), files |-> {<<f[2], f[3]>> : f \in {g \in projFiles : g[1] = dir}}]

\* everything below dir, whatever directory it is recorded under
FilesUnder(files, dir) == {f \in files : IsPrefix(dir, f[1])}

\* std::fs::remove_dir_all on a directory under .references
RemoveDirAll(fs, dir) ==
    [files |-> fs.files \ FilesUnder(fs.files, dir),
     dirs |-> {d \in fs.dirs : ~IsPrefix(dir, d)}]

\* mutant of WalkCopy: a file that matches an include glob is copied without
\* consulting the exclude globs
RECURSIVE WalkCopy_IncludeWins(_, _, _, _)
WalkCopy_IncludeWins(todo, entry, copied, count) ==
    IF todo = {} THEN [files |-> copied, count |-> count]
    ELSE LET f == CHOOSE x \in todo : TRUE
             rest == todo \ {f}
         IN IF entry.include # <<>> /\ ~is_match(entry.include, f[1])
            THEN WalkCopy_IncludeWins(rest, entry, copied, count)
            ELSE IF entry.include = <<>> /\ entry.exclude # <<>>
                    /\ is_match(entry.exclude, f[1])
            THEN WalkCopy_IncludeWins(rest, entry, copied, count)
            ELSE WalkCopy_IncludeWins(rest, entry, copied \cup {f}, count + 1)

\* src/cli/sync.rs copy_reference, the walk: the files of the source still
\* to visit, the files copied so far and their count
RECURSIVE WalkCopy(_, _, _, _)
WalkCopy(todo, entry, copied, count) ==
    IF todo = {} THEN [files |-> copied, count |-> count]
    ELSE LET f == CHOOSE x \in todo : TRUE
             rest == todo \ {f}
         IN IF entry.include # <<>> /\ ~is_match(entry.include, f[1])
            THEN WalkCopy(rest, entry, copied, count)
            ELSE IF entry.exclude # <<>> /\ is_match(entry.exclude, f[1])
            THEN WalkCopy(rest, entry, copied, count)
            ELSE WalkCopy(rest, entry, copied \cup {f}, count + 1)

\* src/cli/sync.rs copy_reference for a directory source (content/<name> and
\* the version extract are directories): the globs are built first, then the
\* target is created and the walk copies into it
copy_reference(source, target, entry, fs) ==
    IF \/ \E i \in 1..Len(entry.include) : ~GlobValid(entry.include[i])
       \/ \E i \in 1..Len(entry.exclude) : ~GlobValid(entry.exclude[i])
    THEN [ok |-> FALSE, count |-> 0, fs |-> fs]
    ELSE LET walked == WalkCopy(source.files, entry, {}, 0)
         IN [ok |-> TRUE, count |-> walked.count,
             fs |-> [files |-> fs.files \cup {<<target, f[1], f[2]>> : f \in walked.files},
                     dirs |-> fs.dirs \cup Ancestors(target)]]

\* mutant of archive_path_at_ref: the archive is taken from HEAD
archive_path_at_ref_Head(version, name) ==
    LET at == HeadOf(commits).content[name]
    IN IF at.kind = "absent" THEN [ok |-> FALSE, dir |-> Dir({})]
       ELSE [ok |-> TRUE, dir |-> Dir(at.files)]

\* src/git/mod.rs archive_path_at_ref: dest is created, then git archive
\* <ref> -- content/<name> is piped into tar; a path the commit does not
\* hold gives tar nothing to read and tar fails
archive_path_at_ref(version, name) ==
    LET at == commits[tags[version]].content[name]
    IN IF at.kind = "absent" THEN [ok |-> FALSE, dir |-> Dir({})]
       ELSE [ok |-> TRUE, dir |-> Dir(at.files)]

\* src/store/repository.rs content_at_version, lines 479-483: a temp dir
\* left by an earlier extraction is removed before it is used again
ClearExtract_Keeps(d) == d
ClearExtract(d) == IF d.ex THEN Absent ELSE d

\* mutant of content_at_version: the result of the extraction is dropped
content_at_version_Unchecked(name, version) ==
    IF ~ref_exists(version) THEN [ok |-> FALSE, tmp |-> tmp]
    ELSE LET ar == archive_path_at_ref(version, name)
         IN [ok |-> TRUE, tmp |-> Dir(Overlay(ClearExtract(tmp).files, ar.dir.files))]
\* src/store/repository.rs RepositoryStore::content_at_version
content_at_version(name, version) ==
    IF ~ref_exists(version) THEN [ok |-> FALSE, tmp |-> tmp]
    ELSE LET ar == archive_path_at_ref(version, name)
         IN [ok |-> ar.ok, tmp |-> Dir(Overlay(ClearExtract(tmp).files, ar.dir.files))]

\* ------------------------------------------------------------ project store
\* toml::to_string_pretty of a ManifestEntry: a table of key/value pairs;
\* path and version are skipped when None, include and exclude when empty
EntryToml_SkipExclude(e) ==
    (IF e.path # NoPath THEN {<<"path", e.path>>} ELSE {})
        \cup (IF e.version # NoVersion THEN {<<"version", e.version>>} ELSE {})
        \cup (IF e.include # <<>> THEN {<<"include", e.include>>} ELSE {})
EntryToml(e) ==
    (IF e.path # NoPath THEN {<<"path", e.path>>} ELSE {})
        \cup (IF e.version # NoVersion THEN {<<"version", e.version>>} ELSE {})
        \cup (IF e.include # <<>> THEN {<<"include", e.include>>} ELSE {})
        \cup (IF e.exclude # <<>> THEN {<<"exclude", e.exclude>>} ELSE {})

\* the value a table holds for key, or the serde default of the field
Field(table, key, default) ==
    IF \E kv \in table : kv[1] = key THEN (CHOOSE kv \in table : kv[1] = key)[2]
    ELSE default

\* toml::from_str for a ManifestEntry
EntryFromToml(table) ==
    Entry(Field(table, "path", NoPath), Field(table, "version", NoVersion),
          Field(table, "include", <<>>), Field(table, "exclude", <<>>))

\* the text save_manifest writes for a manifest with references m and
\* bundles mb: one table per reference, and the bundle list
to_toml(m, mb) == [references |-> [n \in DOMAIN m |-> EntryToml(m[n])], bundles |-> mb]

\* src/store/project.rs load_manifest: the references of the file
from_toml(file) == [n \in DOMAIN file.references |-> EntryFromToml(file.references[n])]

\* src/store/project.rs save_manifest
save_manifest(m, mb) == to_toml(m, mb)

\* a ProjectStore call and whether it returned Ok
PCall(op, name, ok) == [op |-> op, name |-> name, ok |-> ok]

\* src/store/project.rs ProjectStore::add_reference
add_reference(m, name, entry) ==
    IF name \in DOMAIN m THEN [ok |-> FALSE, manifest |-> m]
    ELSE [ok |-> TRUE, manifest |-> Insert(m, name, entry)]

\* src/store/project.rs ProjectStore::remove_reference
remove_reference(m, name) ==
    IF name \notin DOMAIN m THEN [ok |-> FALSE, manifest |-> m]
    ELSE [ok |-> TRUE, manifest |-> Drop(m, name)]

\* resolve on the RepositoryStore a CLI invocation opens for itself: its
\* remotes are the ones load_remote_registries finds on disk
CliResolve(name) == ResolveWith(index, load_remote_registries(regDirs), name)

\* get_bundle on the RepositoryStore a CLI invocation opens for itself
CliGetBundle(name) == GetBundleIn(bundles, load_remote_registries(regDirs), name)

\* ProjectStore::add_bundle: a bundle name is appended to the manifest's
\* list; adding a listed name is an error
add_bundle(mb, name) ==
    IF name \in Range(mb) THEN [ok |-> FALSE, bundles |-> mb]
    ELSE [ok |-> TRUE, bundles |-> Append(mb, name)]

\* the names the listed bundles contribute; a listed bundle that get_bundle
\* does not find contributes none
Contributed(mb) == UNION {Range(CliGetBundle(mb[i]).references) : i \in 1..Len(mb)}

\* ProjectStore::resolve_all_references: the explicit entries, and a default
\* entry for every other name a listed bundle contributes
resolve_all_references(m, mb) ==
    [n \in DOMAIN m \cup Contributed(mb) |-> IF n \in DOMAIN m THEN m[n] ELSE DefaultEntry]

\* src/store/project.rs ProjectStore::open: the manifest a new invocation
\* loads from refstore.toml
Opened == [references |-> from_toml(toml), bundles |-> toml.bundles]

\* src/cli/remove.rs run: `refstore remove <name>` (no --purge)
ManifestRemove(name) ==
    /\ sync.pc = "idle"
    /\ LET removed == remove_reference(Opened.references, name)
       IN /\ manifest' = removed.manifest
          /\ mbundles' = Opened.bundles
          /\ toml' = IF removed.ok THEN save_manifest(removed.manifest, Opened.bundles)
                     ELSE toml
          /\ pcall' = PCall("remove_reference", name, removed.ok)
    /\ UNCHANGED <<projFiles, projDirs, tmp, sync, mcp>>

\* src/cli/remove.rs run: `refstore remove <name> --purge`; after the entry
\* is removed and the manifest saved, references_dir().join(name) is deleted
\* when it exists
ManifestRemovePurge(name) ==
    /\ sync.pc = "idle"
    /\ LET removed == remove_reference(Opened.references, name)
           fs0 == [files |-> projFiles, dirs |-> projDirs]
           fs1 == IF removed.ok /\ TargetExists(<<name>>) THEN RemoveDirAll(fs0, <<name>>)
                  ELSE fs0
       IN /\ manifest' = removed.manifest
          /\ mbundles' = Opened.bundles
          /\ toml' = IF removed.ok THEN save_manifest(removed.manifest, Opened.bundles)
                     ELSE toml
          /\ projFiles' = fs1.files
          /\ projDirs' = fs1.dirs
          /\ pcall' = PCall("remove_purge", name, removed.ok)
    /\ UNCHANGED <<tmp, sync, mcp>>

\* ProjectStore::remove_bundle: the bundle name is taken off the manifest's
\* list; removing a name that is not listed is an error
remove_bundle(mb, name) ==
    IF name \notin Range(mb) THEN [ok |-> FALSE, bundles |-> mb]
    ELSE [ok |-> TRUE, bundles |-> SelectSeq(mb, LAMBDA b : b # name)]

\* src/cli/remove.rs run, lines 19-30: for every member of the bundle that
\* is not an explicit entry of the manifest, refs_dir.join(ref_name) is
\* deleted when it exists
RECURSIVE PurgeMembers(_, _, _)
PurgeMembers(fs, refs, m) ==
    IF refs = <<>> THEN fs
    ELSE PurgeMembers(IF /\ Head(refs) \notin DOMAIN m
                         /\ \E d \in fs.dirs : IsPrefix(<<Head(refs)>>, d)
                      THEN RemoveDirAll(fs, <<Head(refs)>>) ELSE fs,
                      Tail(refs), m)

\* src/cli/remove.rs run: `refstore remove --bundle <name> [--purge]`; with
\* --purge the members of the bundle the repository has under that name are
\* purged first, then the bundle is removed from the manifest
ManifestRemoveBundle(name, purge) ==
    /\ sync.pc = "idle"
    /\ LET bundle == CliGetBundle(name)
           fs0 == [files |-> projFiles, dirs |-> projDirs]
           fs1 == IF purge /\ bundle # NoBundle
                  THEN PurgeMembers(fs0, bundle.references, Opened.references)
                  ELSE fs0
           removed == remove_bundle(Opened.bundles, name)
       IN /\ manifest' = Opened.references
          /\ mbundles' = removed.bundles
          /\ toml' = IF removed.ok THEN save_manifest(Opened.references, removed.bundles)
                     ELSE toml
          /\ projFiles' = fs1.files
          /\ projDirs' = fs1.dirs
          /\ pcall' = PCall(IF purge THEN "remove_bundle_purge" ELSE "remove_bundle",
                            name, removed.ok)
    /\ UNCHANGED <<tmp, sync, mcp>>

STRAY == <<"stray", ".txt">>

\* the user edits the materialized copy at dir: README.md is rewritten and
\* a file of their own is added
EditWorkingTree(dir) ==
    /\ sync.pc = "idle"
    /\ dir # <<>> /\ dir \in projDirs
    /\ projFiles' = {f \in projFiles : ~(f[1] = dir /\ f[2] = README)}
                        \cup {<<dir, README, 9>>, <<dir, STRAY, 9>>}
    /\ UNCHANGED <<manifest, projDirs, tmp, sync, mbundles, toml, pcall, mcp>>

\* ------------------------------------------------------------ synchronizer
NameRank(n) == IF n = "a" THEN 1 ELSE 2

\* iteration order of a BTreeMap<String, _>
RECURSIVE KeysInOrder(_)
KeysInOrder(S) ==
    IF S = {} THEN <<>>
    ELSE LET first == CHOOSE n \in S : \A q \in S : NameRank(n) <= NameRank(q)
         IN <<first>> \o KeysInOrder(S \ {first})

\* what one iteration of the loop did: the entry, the branch it took, its
\* target and the files the iteration found under the target
NoOutcome == [name |-> "", kind |-> "none", target |-> <<>>, entry |-> DefaultEntry,
              before |-> {}]

Outcome(name, kind, target, entry) ==
    [name |-> name, kind |-> kind, target |-> target, entry |-> entry,
     before |-> FilesUnder(projFiles, target)]

IdleSync == [pc |-> "idle", queue |-> <<>>, force |-> FALSE, synced |-> 0, failed |-> 0,
             total |-> 0, ok |-> TRUE, runs |-> 0, done |-> <<>>, out |-> NoOutcome,
             only |-> "", kinds |-> <<>>]

\* src/cli/sync.rs run, lines 9-39: the repository and the project are
\* opened, the entries are resolved and selected; the record of the
\* invocation as it enters the loop (or returns before it); only is the
\* name argument, done and kinds are the entries processed so far and how
\* each iteration ended
Started_EveryEntry(nameOpt, force, m, mb) ==
    LET resolved == resolve_all_references(m, mb)
        queue == KeysInOrder(DOMAIN resolved)
        started == [pc |-> "running", queue |-> queue, force |-> force, synced |-> 0,
                    failed |-> 0, total |-> Len(queue), ok |-> TRUE,
                    runs |-> sync.runs + 1, done |-> <<>>, out |-> NoOutcome,
                    only |-> nameOpt, kinds |-> <<>>]
    IN IF nameOpt # "" /\ nameOpt \notin DOMAIN resolved
       THEN [started EXCEPT !.pc = "done", !.ok = FALSE, !.queue = <<>>, !.total = 0]
       ELSE IF queue = <<>> THEN [started EXCEPT !.pc = "done"]
       ELSE started
Started(nameOpt, force, m, mb) ==
    LET resolved == resolve_all_references(m, mb)
        queue == IF nameOpt # "" THEN <<nameOpt>> ELSE KeysInOrder(DOMAIN resolved)
        started == [pc |-> "running", queue |-> queue, force |-> force, synced |-> 0,
                    failed |-> 0, total |-> Len(queue), ok |-> TRUE,
                    runs |-> sync.runs + 1, done |-> <<>>, out |-> NoOutcome,
                    only |-> nameOpt, kinds |-> <<>>]
    IN IF nameOpt # "" /\ nameOpt \notin DOMAIN resolved
       THEN [started EXCEPT !.pc = "done", !.ok = FALSE, !.queue = <<>>, !.total = 0]
       ELSE IF queue = <<>> THEN [started EXCEPT !.pc = "done"]
       ELSE started

\* `refstore sync [name] [--force]` up to the loop; .references is created
SyncStart(nameOpt, force) ==
    /\ sync.pc = "idle"
    /\ sync.runs < MaxSyncs
    /\ manifest' = Opened.references
    /\ mbundles' = Opened.bundles
    /\ sync' = Started(nameOpt, force, Opened.references, Opened.bundles)
    /\ projDirs' = projDirs \cup {<<>>}
    /\ pcall' = PCall("open", "", TRUE)
    /\ UNCHANGED <<projFiles, tmp, toml, mcp>>
    /\ UNCHANGED repoVars

\* src/cli/add.rs run: `refstore add <name>` with the entry's options; with
\* --sync the entry is synced right away (sync::run(Some(name), false))
ManifestAdd(name, entry, syncNow) ==
    /\ sync.pc = "idle"
    /\ CliResolve(name).found
    /\ LET added == add_reference(Opened.references, name, entry)
       IN /\ manifest' = added.manifest
          /\ mbundles' = Opened.bundles
          /\ toml' = IF added.ok THEN save_manifest(added.manifest, Opened.bundles) ELSE toml
          /\ pcall' = PCall("add_reference", name, added.ok)
          /\ IF added.ok /\ syncNow
             THEN /\ sync.runs < MaxSyncs
                  /\ sync' = Started(name, FALSE, added.manifest, Opened.bundles)
                  /\ projDirs' = projDirs \cup {<<>>}
             ELSE UNCHANGED <<sync, projDirs>>
    /\ UNCHANGED <<projFiles, tmp, mcp>>

\* src/cli/add.rs run: `refstore add --bundle <name>`; with --sync,
\* sync::run(Some(name), false) is called with the bundle's name
ManifestAddBundle(name, syncNow) ==
    /\ sync.pc = "idle"
    /\ CliGetBundle(name) # NoBundle
    /\ LET added == add_bundle(Opened.bundles, name)
       IN /\ mbundles' = added.bundles
          /\ manifest' = Opened.references
          /\ toml' = IF added.ok THEN save_manifest(Opened.references, added.bundles) ELSE toml
          /\ pcall' = PCall("add_bundle", name, added.ok)
          /\ IF added.ok /\ syncNow
             THEN /\ sync.runs < MaxSyncs
                  /\ sync' = Started(name, FALSE, Opened.references, added.bundles)
                  /\ projDirs' = projDirs \cup {<<>>}
             ELSE UNCHANGED <<sync, projDirs>>
    /\ UNCHANGED <<projFiles, tmp, mcp>>

\* mutant of Replace: the target is not deleted before the copy
Replace_KeepsTarget(name, entry, target, source, versioned, tmpNow) ==
    LET fs0 == [files |-> projFiles, dirs |-> projDirs]
        cp == copy_reference(source, target, entry, fs0)
    IN [out |-> Outcome(name, IF cp.ok THEN "replaced" ELSE "copy_failed", target, entry),
        fs |-> cp.fs,
        tmp |-> IF versioned THEN Absent ELSE tmpNow,
        synced |-> IF cp.ok THEN 1 ELSE 0,
        failed |-> IF cp.ok THEN 0 ELSE 1]

\* src/cli/sync.rs run, lines 84-126: the target is deleted when it exists,
\* the source is copied and counted, the version extract is cleaned up
Replace(name, entry, target, source, versioned, tmpNow) ==
    LET fs0 == [files |-> projFiles, dirs |-> projDirs]
        fs1 == IF TargetExists(target) THEN RemoveDirAll(fs0, target) ELSE fs0
        cp == copy_reference(source, target, entry, fs1)
    IN [out |-> Outcome(name, IF cp.ok THEN "replaced" ELSE "copy_failed", target, entry),
        fs |-> cp.fs,
        tmp |-> IF versioned THEN Absent ELSE tmpNow,
        synced |-> IF cp.ok THEN 1 ELSE 0,
        failed |-> IF cp.ok THEN 0 ELSE 1]

\* mutant of Skip: the iteration ends without counting the entry
Skip_Uncounted(name, kind, target, entry, tmpNow, synced, failed) ==
    [out |-> Outcome(name, kind, target, entry),
     fs |-> [files |-> projFiles, dirs |-> projDirs],
     tmp |-> tmpNow, synced |-> synced, failed |-> 0]

\* src/cli/sync.rs run, the `continue` branches: a counter is incremented
\* and the iteration ends without touching the target
Skip(name, kind, target, entry, tmpNow, synced, failed) ==
    [out |-> Outcome(name, kind, target, entry),
     fs |-> [files |-> projFiles, dirs |-> projDirs],
     tmp |-> tmpNow, synced |-> synced, failed |-> failed]

\* src/cli/sync.rs run, lines 52-55: the entry's path under .references
\* when it has one, else the reference's name
target_dir_ByName(name, entry) == <<name>>
target_dir(name, entry) == IF entry.path # NoPath THEN entry.path ELSE <<name>>

\* src/cli/sync.rs run, lines 41-127: one iteration of the loop
ProcessEntry(name, entry, force) ==
    LET target == target_dir(name, entry)
    IN IF ~CliResolve(name).found
       THEN Skip(name, "unknown", target, entry, tmp, 0, 1)
       ELSE IF entry.version # NoVersion
       THEN LET cv == content_at_version(name, entry.version)
            IN IF ~cv.ok
               THEN Skip(name, "version_failed", target, entry, cv.tmp, 0, 1)
               ELSE Replace(name, entry, target, cv.tmp, TRUE, cv.tmp)
       ELSE LET source == DirAtPath(CliResolve(name).content_path)
            IN IF ~source.ex
               THEN Skip(name, "no_content", target, entry, tmp, 0, 1)
               ELSE IF /\ TargetExists(target) /\ ~force
                       /\ is_git_repo(source) /\ is_git_repo(TargetDir(target))
                       /\ head_hash(source, commits) = head_hash(TargetDir(target), commits)
               THEN Skip(name, "up_to_date", target, entry, tmp, 1, 0)
               ELSE Replace(name, entry, target, source, FALSE, tmp)

\* one entry of the running sync is processed; after the last one the
\* summary is printed and run returns Ok
SyncEntry ==
    /\ sync.pc = "running"
    /\ sync.queue # <<>>
    /\ LET name == Head(sync.queue)
           step == ProcessEntry(name, resolve_all_references(manifest, mbundles)[name],
                                sync.force)
       IN /\ sync' = [sync EXCEPT !.queue = Tail(sync.queue),
                                  !.synced = sync.synced + step.synced,
                                  !.failed = sync.failed + step.failed,
                                  !.done = Append(sync.done, name),
                                  !.kinds = Append(sync.kinds, step.out.kind),
                                  !.out = step.out,
                                  !.pc = IF Tail(sync.queue) = <<>> THEN "done"
                                         ELSE "running"]
          /\ projFiles' = step.fs.files
          /\ projDirs' = step.fs.dirs
          /\ tmp' = step.tmp
    /\ UNCHANGED <<manifest, mbundles, toml, pcall, mcp>>
    /\ UNCHANGED repoVars

\* the process is killed inside an iteration, right after content_at_version
\* has returned the extract of a pinned entry: the extract stays on disk
SyncKilled ==
    /\ sync.pc = "running"
    /\ sync.queue # <<>>
    /\ LET name == Head(sync.queue)
           entry == resolve_all_references(manifest, mbundles)[name]
           cv == content_at_version(name, entry.version)
       IN /\ CliResolve(name).found
          /\ entry.version # NoVersion
          /\ cv.ok
          /\ tmp' = cv.tmp
    /\ sync' = [IdleSync EXCEPT !.runs = sync.runs]
    /\ UNCHANGED <<manifest, projFiles, projDirs, mbundles, toml, pcall, mcp>>
    /\ UNCHANGED repoVars

\* src/cli/sync.rs run, line 130 (and the early returns): the invocation
\* returns and its locals are gone; the number of invocations stays
SyncReturn ==
    /\ sync.pc = "done"
    /\ sync' = [IdleSync EXCEPT !.runs = sync.runs]
    /\ UNCHANGED <<manifest, projFiles, projDirs, tmp, mbundles, toml, pcall, mcp>>
    /\ UNCHANGED repoVars

\* ------------------------------------------------------------ MCP server
\* src/model/config.rs McpScope
Scopes == {"read_only", "read_write"}

\* a tool call and whether it returned CallToolResult::success
ToolCall(tool, name, ok) == [tool |-> tool, name |-> name, ok |-> ok]
NoCall == ToolCall("", "", TRUE)

\* the add_to_project calls a client can have in flight on one connection
MaxCalls == 2
CallIds == 1 .. MaxCalls

\* one add_to_project call: where its task stands, the name it was called
\* with, and the result it returns (ok: CallToolResult::success; why: the
\* error message)
IdleCall == [pc |-> "idle", name |-> "", ok |-> FALSE, why |-> ""]

\* what a file tool answered from: the content directory it resolved for
\* the reference and the place on disk it read or listed (<<>>: nothing)
NoRead == [dir |-> <<>>, at |-> <<>>]

\* no server is running
McpDown == [up |-> FALSE, scope |-> "read_only", index |-> <<>>, bundles |-> <<>>,
            remotes |-> <<>>, project |-> FALSE, manifest |-> <<>>, mbundles |-> <<>>,
            call |-> NoCall, calls |-> [c \in CallIds |-> IdleCall], holder |-> 0,
            read |-> NoRead]

\* src/cli/mcp.rs run: the repository is opened, the scope is read from its
\* config, and the project is opened when the working directory is inside
\* one (ProjectStore::open(None).ok()); the server keeps all three
McpStart(scope, inProject) ==
    /\ ~mcp.up
    /\ mcp' = [up |-> TRUE, scope |-> scope, index |-> index, bundles |-> bundles,
               remotes |-> load_remote_registries(regDirs), project |-> inProject,
               manifest |-> IF inProject THEN Opened.references ELSE <<>>,
               mbundles |-> IF inProject THEN Opened.bundles ELSE <<>>,
               call |-> NoCall, calls |-> [c \in CallIds |-> IdleCall], holder |-> 0,
            read |-> NoRead]
    /\ UNCHANGED <<manifest, projFiles, projDirs, tmp, sync, mbundles, toml, pcall>>

\* the client closes the connection and the server exits
McpStop ==
    /\ mcp.up
    /\ mcp' = McpDown
    /\ UNCHANGED <<manifest, projFiles, projDirs, tmp, sync, mbundles, toml, pcall>>

\* self.repo.get(name) on the RepositoryStore the server holds
McpGet(name) == ResolveWith(mcp.index, mcp.remotes, name)

\* src/mcp/tools.rs add_to_project, line 444: the scope check
ScopeAllows_Any(scope) == TRUE
ScopeAllows(scope) == scope = "read_write"

\* src/mcp/tools.rs add_to_project
McpAddToProject(name) ==
    /\ mcp.up
    /\ IF ~ScopeAllows(mcp.scope) \/ ~McpGet(name).found \/ ~mcp.project
       THEN /\ mcp' = [mcp EXCEPT !.call = ToolCall("add_to_project", name, FALSE)]
            /\ UNCHANGED toml
       ELSE LET added == add_reference(mcp.manifest, name, DefaultEntry)
            IN /\ mcp' = [mcp EXCEPT !.manifest = added.manifest,
                                     !.call = ToolCall("add_to_project", name, added.ok)]
               /\ toml' = IF added.ok THEN save_manifest(added.manifest, mcp.mbundles)
                          ELSE toml
    /\ UNCHANGED <<manifest, projFiles, projDirs, tmp, sync, mbundles, pcall>>

\* src/mcp/tools.rs add_to_project, lines 444-456, as the first step of a
\* call's task: the scope check and repo.get; a call that passes both goes on
\* to self.project.lock().await
CallBegin(c, name) ==
    /\ mcp.up
    /\ mcp.calls[c].pc = "idle"
    /\ mcp' = [mcp EXCEPT !.calls[c] =
                 IF ~ScopeAllows(mcp.scope)
                 THEN [pc |-> "done", name |-> name, ok |-> FALSE, why |-> "read_only"]
                 ELSE IF ~McpGet(name).found
                 THEN [pc |-> "done", name |-> name, ok |-> FALSE, why |-> "not_found"]
                 ELSE [pc |-> "waiting", name |-> name, ok |-> FALSE, why |-> ""]]
    /\ UNCHANGED <<manifest, projFiles, projDirs, tmp, sync, mbundles, toml, pcall>>

\* mutant of MutexFree: the lock is handed out while another task holds it
MutexFree_Always(holder) == TRUE
\* src/mcp/tools.rs line 458, tokio::sync::Mutex::lock: the future resolves
\* only while no guard is alive
MutexFree(holder) == holder = 0

\* src/mcp/tools.rs line 458: the call's task gets the MutexGuard
CallLock(c) ==
    /\ mcp.calls[c].pc = "waiting"
    /\ MutexFree(mcp.holder)
    /\ mcp' = [mcp EXCEPT !.calls[c].pc = "locked", !.holder = c]
    /\ UNCHANGED <<manifest, projFiles, projDirs, tmp, sync, mbundles, toml, pcall>>

\* src/mcp/tools.rs lines 459-477 under the guard: no project gives the
\* "No project manifest found" error, otherwise the result is that of
\* ProjectStore::add_reference, which saves refstore.toml when it inserts
CallAdd(c) ==
    /\ mcp.calls[c].pc = "locked"
    /\ LET name == mcp.calls[c].name
           added == add_reference(mcp.manifest, name, DefaultEntry)
       IN IF ~mcp.project
          THEN /\ mcp' = [mcp EXCEPT !.calls[c].pc = "added", !.calls[c].why = "no_project"]
               /\ UNCHANGED toml
          ELSE /\ mcp' = [mcp EXCEPT !.manifest = added.manifest,
                                     !.calls[c].pc = "added",
                                     !.calls[c].ok = added.ok,
                                     !.calls[c].why = IF added.ok THEN "" ELSE "exists"]
               /\ toml' = IF added.ok THEN save_manifest(added.manifest, mcp.mbundles)
                          ELSE toml
    /\ UNCHANGED <<manifest, projFiles, projDirs, tmp, sync, mbundles, pcall>>

\* src/mcp/tools.rs lines 461-477: the function returns its result and the
\* guard is dropped
CallReturn(c) ==
    /\ mcp.calls[c].pc = "added"
    /\ mcp' = [mcp EXCEPT !.calls[c].pc = "done",
                          !.holder = IF mcp.holder = c THEN 0 ELSE mcp.holder]
    /\ UNCHANGED <<manifest, projFiles, projDirs, tmp, sync, mbundles, toml, pcall>>

\* paths as sequences of components; "/" as first component is the root of
\* an absolute path, ".." is Component::ParentDir
\* std::path::Path::join: an absolute path replaces the base
PathJoin(base, p) == IF p # <<>> /\ p[1] = "/" THEN p ELSE base \o p

\* std::path::Path::starts_with compares whole components as they are
\* written; a ".." component is a component like any other
starts_with(p, base) == IsPrefix(base, p)

\* the place the operating system opens for a path: each ".." steps back to
\* the parent of what precedes it
RECURSIVE Canonical(_, _)
Canonical(seen, rest) ==
    IF rest = <<>> THEN seen
    ELSE IF Head(rest) = ".."
    THEN Canonical(IF seen = <<>> THEN <<>> ELSE SubSeq(seen, 1, Len(seen) - 1), Tail(rest))
    ELSE Canonical(Append(seen, Head(rest)), Tail(rest))

\* whether a file is at a place: README.md of a content directory, the
\* config.toml of the data directory, a file elsewhere on the machine
FileExists(loc) ==
    IF Len(loc) = 4 /\ loc[2] = "content" /\ loc[3] \in Names /\ loc[4] = "README.md"
    THEN LET d == DirAtPath(SubSeq(loc, 1, 3)) IN d.ex /\ README \in Paths(d.files)
    ELSE IF loc = <<"local", "config.toml">> THEN root.config
    ELSE loc = <<"/", "etc", "hostname">>

\* whether a directory is at a place: a content directory or its src, the
\* content directory of a registry, a registry's root, a directory elsewhere
DirExists(loc) ==
    IF Len(loc) \in {3, 4} /\ loc[2] = "content" /\ loc[3] \in Names
    THEN LET d == DirAtPath(SubSeq(loc, 1, 3))
         IN /\ d.ex
            /\ Len(loc) = 4 => loc[4] = "src" /\ \E f \in d.files : f[1][1] = "src"
    ELSE IF Len(loc) = 2 /\ loc[2] = "content"
    THEN \E n \in Names : DirAtPath(Append(loc, n)).ex
    ELSE IF Len(loc) = 1 THEN loc[1] = "local" \/ loc[1] \in regDirs
    ELSE loc = <<"/", "etc">>

\* src/mcp/tools.rs read_reference_file: the content directory must exist,
\* the joined path must start with it, and the file is read
read_reference_file(reference, path) ==
    LET r == McpGet(reference)
        content_dir == r.content_path
        file_path == PathJoin(content_dir, path)
    IN IF ~r.found \/ ~DirAtPath(content_dir).ex THEN [ok |-> FALSE, read |-> NoRead]
       ELSE IF ~starts_with(file_path, content_dir) THEN [ok |-> FALSE, read |-> NoRead]
       ELSE IF ~FileExists(Canonical(<<>>, file_path)) THEN [ok |-> FALSE, read |-> NoRead]
       ELSE [ok |-> TRUE, read |-> [dir |-> content_dir, at |-> Canonical(<<>>, file_path)]]

\* src/mcp/tools.rs list_reference_files: subpath <<>> is None; the target
\* must exist and start with the content directory, and its entries are
\* listed
list_reference_files(reference, subpath) ==
    LET r == McpGet(reference)
        content_dir == IF r.found THEN r.content_path ELSE content_path("local", reference)
        target == IF subpath # <<>> THEN PathJoin(content_dir, subpath) ELSE content_dir
    IN IF ~DirExists(Canonical(<<>>, target)) THEN [ok |-> FALSE, read |-> NoRead]
       ELSE IF ~starts_with(target, content_dir) THEN [ok |-> FALSE, read |-> NoRead]
       ELSE [ok |-> TRUE, read |-> [dir |-> content_dir, at |-> Canonical(<<>>, target)]]

\* a client calls read_reference_file or list_reference_files
McpFile(tool, reference, path) ==
    /\ mcp.up
    /\ LET res == IF tool = "read_reference_file" THEN read_reference_file(reference, path)
                  ELSE list_reference_files(reference, path)
       IN mcp' = [mcp EXCEPT !.call = ToolCall(tool, reference, res.ok), !.read = res.read]
    /\ UNCHANGED <<manifest, projFiles, projDirs, tmp, sync, mbundles, toml, pcall>>

\* the tools that answer from the repository the server holds
ReadTools == {"get_tutorial", "list_references", "get_reference", "read_reference_file",
              "list_reference_files", "search_references", "list_bundles", "get_bundle"}

\* whether a read tool called with name answers with success: get_reference
\* and search_references need the name to resolve, read_reference_file and
\* list_reference_files need its content directory on disk, get_bundle needs
\* a bundle of that name, the others always answer
ReadAnswers(tool, name) ==
    IF tool \in {"get_reference", "search_references"} THEN McpGet(name).found
    ELSE IF tool \in {"read_reference_file", "list_reference_files"}
    THEN DirAtPath(McpGet(name).content_path).ex
    ELSE IF tool = "get_bundle"
    THEN GetBundleIn(mcp.bundles, mcp.remotes, name) # NoBundle
    ELSE TRUE

\* src/mcp/tools.rs, every tool but add_to_project
McpRead(tool, name) ==
    /\ mcp.up
    /\ mcp' = [mcp EXCEPT !.call = ToolCall(tool, name, ReadAnswers(tool, name))]
    /\ UNCHANGED <<manifest, projFiles, projDirs, tmp, sync, mbundles, toml, pcall>>

\* --------------------------------------------------------------- listing
\* the tags that come with a reference's description and tags (meta)
TagsOf(meta) ==
    IF meta = "m1" THEN {"rust"}
    ELSE IF meta = "r1" THEN {"rust", "python"}
    ELSE IF meta = "r2" THEN {"python"}
    ELSE {}

\* Option<&str> filters of list: "" is None
TagFilters == {"", "rust", "python"}
KindFilters == {"", "file", "directory", "git_repo", "dir"}

\* the closure RegistryStore::list filters with
ListFilter(r, tag, kind) ==
    /\ tag # "" => tag \in TagsOf(r.meta)
    /\ kind # "" => r.kind = kind

\* src/store/registry.rs RegistryStore::list on the local registry: the
\* values of the BTreeMap in key order, filtered
LocalList(idx, tag, kind) ==
    LET keys == KeysInOrder(DOMAIN idx)
    IN SelectSeq([i \in 1..Len(keys) |-> idx[keys[i]]], LAMBDA r : ListFilter(r, tag, kind))

\* src/store/registry.rs RegistryStore::list on an attached registry
RemoteList(reg, tag, kind) ==
    LET keys == KeysInOrder(RemoteNames(reg))
    IN SelectSeq([i \in 1..Len(keys) |-> RemoteRef(reg, keys[i])],
                 LAMBDA r : ListFilter(r, tag, kind))

\* the local loop of RepositoryStore::list: every hit is recorded in seen
\* and pushed
RECURSIVE PushAll(_, _)
PushAll(acc, hits) ==
    IF hits = <<>> THEN acc
    ELSE PushAll([seen |-> acc.seen \cup {Head(hits).name},
                  result |-> Append(acc.result, Head(hits))], Tail(hits))

\* the inner loop over one remote: a hit is pushed when seen.insert says
\* its name is new
RECURSIVE PushUnseen_Always(_, _)
PushUnseen_Always(acc, hits) ==
    IF hits = <<>> THEN acc
    ELSE PushUnseen_Always([seen |-> acc.seen \cup {Head(hits).name},
                            result |-> Append(acc.result, Head(hits))], Tail(hits))
RECURSIVE PushUnseen(_, _)
PushUnseen(acc, hits) ==
    IF hits = <<>> THEN acc
    ELSE PushUnseen([seen |-> acc.seen \cup {Head(hits).name},
                     result |-> IF Head(hits).name \in acc.seen THEN acc.result
                                ELSE Append(acc.result, Head(hits))], Tail(hits))

\* the loop over the remotes, in the order of the remotes list
RECURSIVE ListRemotes(_, _, _, _)
ListRemotes(acc, rs, tag, kind) ==
    IF rs = <<>> THEN acc
    ELSE ListRemotes(PushUnseen(acc, RemoteList(Head(rs), tag, kind)), Tail(rs), tag, kind)

\* src/store/repository.rs RepositoryStore::list
list(tag, kind) ==
    ListRemotes(PushAll([seen |-> {}, result |-> <<>>], LocalList(index, tag, kind)),
                remotes, tag, kind).result

\* a caller lists the references of the instance
List(tag, kind) ==
    /\ last' = ListResult(tag, kind, list(tag, kind))
    /\ UNCHANGED <<index, content, commits, tags, regDirs, remotes, config, bundles, root, targetReg>>

\* --------------------------------------------------------------- versions
\* a line of `git log --format=%H|%aI|%s`: the commit and its subject
LogEntry(cs, i) == [hash |-> RootHash(i), message |-> cs[i].msg]

\* whether the i-th commit changed content/<name> (the first commit is
\* compared with the empty tree)
Touches(cs, i, name) ==
    cs[i].content[name] # (IF i = 1 THEN [kind |-> "absent", files |-> {}]
                           ELSE cs[i - 1].content[name])

\* src/git/mod.rs log_path(root, "content/<name>"): git log -- <path> walks
\* back from HEAD and prints the commits that changed the path
RECURSIVE log_path_OldestFirst(_, _, _)
log_path_OldestFirst(cs, name, i) ==
    IF i = 0 THEN <<>>
    ELSE log_path_OldestFirst(cs, name, i - 1)
             \o (IF Touches(cs, i, name) THEN <<LogEntry(cs, i)>> ELSE <<>>)
RECURSIVE log_path(_, _, _)
log_path(cs, name, i) ==
    IF i = 0 THEN <<>>
    ELSE (IF Touches(cs, i, name) THEN <<LogEntry(cs, i)>> ELSE <<>>)
             \o log_path(cs, name, i - 1)

\* src/store/repository.rs RepositoryStore::versions
versions(name) ==
    IF get(name) = NoRef THEN [ok |-> FALSE, entries |-> <<>>]
    ELSE [ok |-> TRUE, entries |-> log_path(commits, name, Len(commits))]

\* a versions call: the entries it returned are kept in refs
Versions(name) ==
    LET got == versions(name) IN
    /\ last' = [Result("versions", name, got.ok, NoRef) EXCEPT !.refs = got.entries]
    /\ UNCHANGED <<index, content, commits, tags, regDirs, remotes, config, bundles, root,
                   targetReg>>

\* ------------------------------------------------- pushing to a registry
\* src/store/registry.rs RegistryStore::init_new: the directory `registry
\* init` leaves: an empty index.toml, an empty content/, one commit
init_new == [index |-> <<>>, content |-> [n \in Names |-> Absent], commits |-> 1]

\* src/store/repository.rs copy_dir_recursive(src, dst): dst is created and
\* every file under src is copied to the same relative path
copy_dir_recursive_TopLevel(src, dst) ==
    Dir(Overlay(dst.files, {f \in src.files : Len(f[1]) <= 2}))
copy_dir_recursive(src, dst) == Dir(Overlay(dst.files, src.files))

\* RepositoryStore::push_to(name, target), from the specification: name must
\* be in the local registry and not in the target; content/<name> is copied,
\* the Reference inserted and the target's index saved; nothing is committed
push_to(name, t) ==
    IF ~LocalHas(name) \/ name \in DOMAIN t.index
    THEN [ok |-> FALSE, target |-> t]
    ELSE IF ~content[name].ex
    THEN [ok |-> FALSE, target |-> t]
    ELSE [ok |-> TRUE,
          target |-> [t EXCEPT
              !.content = [t.content EXCEPT
                               ![name] = copy_dir_recursive(content[name], t.content[name])],
              !.index = Insert(t.index, name, LocalGet(name))]]

\* src/cli/store.rs run_push: the repository is opened and the reference
\* pushed
PushTo(name) ==
    LET pushed == push_to(name, targetReg) IN
    /\ targetReg' = pushed.target
    /\ last' = Result("push", name, pushed.ok, NoRef)
    /\ UNCHANGED <<index, content, commits, tags, regDirs, remotes, config, bundles, root>>

\* the registry author commits the target according to their workflow
TargetCommit ==
    /\ targetReg.commits < 1 + MaxTargetCommits
    /\ targetReg' = [targetReg EXCEPT !.commits = @ + 1]
    /\ last' = Result("target_commit", "", TRUE, NoRef)
    /\ UNCHANGED <<index, content, commits, tags, regDirs, remotes, config, bundles, root>>

\* ------------------------------------------------------------------ Init
NoCommitted == [kind |-> "absent", files |-> {}]

InitCommit == [msg |-> <<"Initialize refstore repository", "">>,
               content |-> [n \in Names |-> NoCommitted],
               index |-> <<>>, regs |-> {}, bundles |-> <<>>, files |-> {GITIGNORE}]

\* the history left by attaching the registries of seq one after the other
RECURSIVE AttachHistory(_, _)
AttachHistory(cs, seq) ==
    IF seq = <<>> THEN cs
    ELSE AttachHistory(CommitRegs(cs, HeadOf(cs).regs \cup {Head(seq)},
                                  <<"Add registry", Head(seq)>>), Tail(seq))

\* The state RepositoryStore::open leaves in a data directory that holds no
\* reference yet and to which earlier invocations attached the registries
\* regs (none for a fresh directory).
RepoInit(regs) ==
    /\ root = [gitignore |-> <<CONFIGTOML>>, config |-> regs # {}]
    /\ index = <<>>
    /\ content = [n \in Names |-> Absent]
    /\ commits = AttachHistory(<<InitCommit>>, SortByName(regs))
    /\ tags = [t \in TagNames |-> 0]
    /\ regDirs = regs
    /\ remotes = load_remote_registries(regs)
    /\ config = SortByName(regs)
    /\ last = Result("open", "", TRUE, NoRef)
    /\ bundles = <<>>
    /\ targetReg = init_new

\* the state ProjectStore::init leaves in a fresh project directory
ProjInit ==
    /\ manifest = <<>>
    /\ projFiles = {}
    /\ projDirs = {<<>>}
    /\ tmp = Absent
    /\ sync = IdleSync
    /\ mbundles = <<>>
    /\ toml = to_toml(<<>>, <<>>)
    /\ pcall = PCall("init", "", TRUE)
    /\ mcp = McpDown

vars == <<index, content, commits, tags, regDirs, remotes, config, last, bundles, root,
          targetReg,
          manifest, projFiles, projDirs, tmp, sync, mbundles, toml, pcall, mcp>>

\* the source states the repository specification draws from
RepoStates(source) ==
    IF source.type = "local" THEN {Missing, FileAt(1), DirAt(TreeV1), DirAt(EmptyTree)}
    ELSE IF source.type = "git" THEN {Missing, RepoAt(Clone1)}
    ELSE {Missing}

\* Specification of the local registry writes, on a repository with any set
\* of attached registries.
Init == ProjInit /\ \E regs \in SUBSET RegNames : RepoInit(regs)

Next ==
    \/ \E name \in AddNames, source \in Sources, meta \in Metas :
         \E st \in RepoStates(source) : Add(name, source, st, meta) /\ UNCHANGED projVars
    \/ \E name \in Names : Remove(name) /\ UNCHANGED projVars
    \/ \E name \in Names : \E st \in RepoStates(LocalGet(name).source) :
         Update(name, st) /\ UNCHANGED projVars
    \/ \E tag \in TagNames : CreateTag(tag) /\ UNCHANGED projVars
    \/ Open /\ UNCHANGED projVars

Spec == Init /\ [][Next]_vars

\* Specification of registry management on one RepositoryStore instance,
\* starting from a fresh data directory.
RegInit == ProjInit /\ RepoInit({})

RegNext ==
    \/ \E name \in AddRegNames, urlOk \in BOOLEAN :
         AddRegistry(name, urlOk) /\ UNCHANGED projVars
    \/ \E name \in RegNames : RemoveRegistry(name) /\ UNCHANGED projVars
    \/ \E name \in RegNames : UpdateRegistryOne(name) /\ UNCHANGED projVars
    \/ UpdateRegistryAll /\ UNCHANGED projVars
    \/ Open /\ UNCHANGED projVars
    \/ \E name \in Names : Add(name, LocalSource, DirAt(TreeV1), "m1") /\ UNCHANGED projVars
    \/ \E name \in Names : Remove(name) /\ UNCHANGED projVars

RegSpec == RegInit /\ [][RegNext]_vars

\* Specification of sync over a registry whose references come and go:
\* local and git references are added, updated and removed between the syncs
\* of a project whose entries may name a missing version or an invalid glob.
SyncAddStates(source) ==
    IF source.type = "local" THEN {DirAt(TreeV1)} ELSE {RepoAt(Clone1)}

SyncUpdateStates(source) ==
    IF source.type = "local" THEN {Missing} ELSE {RepoAt(Clone2)}

SyncEntries ==
    {DefaultEntry, Entry(NoPath, "v9", <<>>, <<>>), Entry(NoPath, NoVersion, <<G_BAD>>, <<>>)}

SyncInit == ProjInit /\ RepoInit({})

SyncNext ==
    \/ \E name \in Names, source \in {LocalSource, GitSource} :
         \E st \in SyncAddStates(source) :
            sync.pc = "idle" /\ Add(name, source, st, "m1") /\ UNCHANGED projVars
    \/ \E name \in Names : \E st \in SyncUpdateStates(LocalGet(name).source) :
         sync.pc = "idle" /\ Update(name, st) /\ UNCHANGED projVars
    \/ \E name \in Names : sync.pc = "idle" /\ Remove(name) /\ UNCHANGED projVars
    \/ \E name \in Names, entry \in SyncEntries, syncNow \in BOOLEAN :
         ManifestAdd(name, entry, syncNow) /\ UNCHANGED repoVars
    \/ \E nameOpt \in Names \cup {""}, force \in BOOLEAN : SyncStart(nameOpt, force)
    \/ SyncEntry
    \/ SyncReturn

SyncSpec == SyncInit /\ [][SyncNext]_vars

\* Specification of sync with version pins: one local reference is added,
\* tagged and updated between the syncs of a project that pins it or not.
PinNames == {"a"}

PinAddStates == {DirAt(TreeV1), DirAt(Checkout)}

PinUpdateStates == {DirAt(TreeV2), DirAt(CheckoutDirty)}

PinEntries ==
    {DefaultEntry, Entry(NoPath, "v1", <<>>, <<>>), Entry(NoPath, "v1", <<G_MD>>, <<>>)}

PinNext ==
    \/ \E name \in PinNames, st \in PinAddStates :
         sync.pc = "idle" /\ Add(name, LocalSource, st, "m1") /\ UNCHANGED projVars
    \/ \E name \in PinNames, st \in PinUpdateStates :
         sync.pc = "idle" /\ Update(name, st) /\ UNCHANGED projVars
    \/ \E tag \in TagNames : sync.pc = "idle" /\ CreateTag(tag) /\ UNCHANGED projVars
    \/ \E name \in PinNames, entry \in PinEntries, syncNow \in BOOLEAN :
         ManifestAdd(name, entry, syncNow) /\ UNCHANGED repoVars
    \/ \E name \in PinNames : ManifestRemove(name) /\ UNCHANGED repoVars
    \/ \E nameOpt \in PinNames \cup {""}, force \in BOOLEAN : SyncStart(nameOpt, force)
    \/ SyncEntry
    \/ SyncReturn

PinSpec == SyncInit /\ [][PinNext]_vars

\* Specification of sync with filters and path overrides: the project's
\* entry changes and its working tree is edited between the syncs.
FilterEntries ==
    {DefaultEntry,
     Entry(NoPath, NoVersion, <<G_MD>>, <<>>),
     Entry(NoPath, NoVersion, <<>>, <<G_TXT>>),
     Entry(NoPath, NoVersion, <<G_SRC, G_DEEPMD>>, <<G_UTIL>>),
     Entry(<<"b">>, NoVersion, <<>>, <<G_TXT, G_ALL>>)}

FilterNext ==
    \/ \E name \in PinNames :
         sync.pc = "idle" /\ Add(name, LocalSource, DirAt(TreeV1), "m1")
                          /\ UNCHANGED projVars
    \/ \E name \in PinNames :
         sync.pc = "idle" /\ Update(name, DirAt(TreeV2)) /\ UNCHANGED projVars
    \/ \E name \in PinNames, entry \in FilterEntries, syncNow \in BOOLEAN :
         ManifestAdd(name, entry, syncNow) /\ UNCHANGED repoVars
    \/ \E name \in PinNames : ManifestRemove(name) /\ UNCHANGED repoVars
    \/ \E dir \in {<<"a">>, <<"b">>} : EditWorkingTree(dir) /\ UNCHANGED repoVars
    \/ \E force \in BOOLEAN : SyncStart("", force)
    \/ SyncEntry
    \/ SyncReturn

FilterSpec == SyncInit /\ [][FilterNext]_vars

\* Specification of the bundle operations of one RepositoryStore instance,
\* on a repository with an attached registry that defines some or all of the
\* member names, while local references are added in between.
BundleAddLists == {<<>>, <<"a">>, <<"b">>}
BundleRemoveLists == {<<>>, <<"b">>}

BundleInit == ProjInit /\ \E regs \in {{"r1"}, {"r2"}} : RepoInit(regs)

BundleNext ==
    \/ \E name \in Names : Add(name, LocalSource, DirAt(TreeV1), "m1") /\ UNCHANGED projVars
    \/ \E name \in AddBundleNames, refs \in RefLists, meta \in BundleMetas :
         AddBundle(name, refs, meta) /\ UNCHANGED projVars
    \/ \E name \in {"k1"}, add \in BundleAddLists, remove \in BundleRemoveLists,
          desc \in UpdateMetas :
         UpdateBundle(name, add, remove, desc) /\ UNCHANGED projVars
    \/ \E name \in BundleNames : RemoveBundle(name) /\ UNCHANGED projVars

BundleSpec == BundleInit /\ [][BundleNext]_vars

\* Specification of sync with bundles: references are added to and removed
\* from the local registry, bundles are created over them, and a project
\* lists bundles and explicit entries between its syncs.
DOCS == <<"docs">>

MemberStates == {DirAt(TreeV1), DirAt(EmptyTree)}

MemberLists == {<<"a", "b">>}

MemberBundles == {"k1"}

MemberEntries == {DefaultEntry, Entry(DOCS, NoVersion, <<>>, <<>>)}

\* a data directory to which an earlier invocation attached registry r1
MemberInit == ProjInit /\ RepoInit({"r1"})

MemberNext ==
    \/ \E name \in Names, st \in MemberStates :
         sync.pc = "idle" /\ Add(name, LocalSource, st, "m1") /\ UNCHANGED projVars
    \/ \E name \in Names : sync.pc = "idle" /\ Remove(name) /\ UNCHANGED projVars
    \/ \E name \in MemberBundles, refs \in MemberLists, meta \in BundleMetas :
         sync.pc = "idle" /\ AddBundle(name, refs, meta) /\ UNCHANGED projVars
    \/ \E name \in PinNames, entry \in MemberEntries, syncNow \in BOOLEAN :
         ManifestAdd(name, entry, syncNow) /\ UNCHANGED repoVars
    \/ \E name \in MemberBundles, syncNow \in BOOLEAN :
         ManifestAddBundle(name, syncNow) /\ UNCHANGED repoVars
    \/ SyncStart("", FALSE)
    \/ SyncEntry
    \/ SyncReturn

MemberSpec == MemberInit /\ [][MemberNext]_vars

\* Specification of listing on one RepositoryStore instance: local
\* references of either kind are added and removed and registries are
\* attached, in either order, between the calls of list.
ListStates == {FileAt(1), DirAt(TreeV1)}

ListInit == ProjInit /\ \E regs \in {{}, {"r1"}} : RepoInit(regs)

ListNext ==
    \/ \E name \in Names, st \in ListStates :
         Add(name, LocalSource, st, "m1") /\ UNCHANGED projVars
    \/ \E name \in Names : Remove(name) /\ UNCHANGED projVars
    \/ \E name \in RegNames : AddRegistry(name, TRUE) /\ UNCHANGED projVars
    \/ \E tag \in TagFilters, kind \in KindFilters : List(tag, kind) /\ UNCHANGED projVars

ListSpec == ListInit /\ [][ListNext]_vars

\* Specification of add with sources that fail: the source path is
\* missing, holds an entry that cannot be copied, or is a url that cannot
\* be cloned; names are invalid or taken.
FailingStates(source) ==
    IF source.type = "local"
    THEN {Missing, DirAt(TreeV1), BrokenDirAt(EmptyTree), BrokenDirAt({<<README, 1>>})}
    ELSE IF source.type = "git" THEN {Missing, RepoAt(Clone1)}
    ELSE {Missing}

FailingNext ==
    \/ \E name \in AddNames, source \in Sources, meta \in Metas :
         \E st \in FailingStates(source) : Add(name, source, st, meta) /\ UNCHANGED projVars
    \/ \E name \in Names : Remove(name) /\ UNCHANGED projVars

FailingSpec == Init /\ [][FailingNext]_vars

\* Specification of the six operations that write the local registry, on a
\* repository to which registry r2 is attached, which defines both reference
\* names and a bundle.
FrameInit == ProjInit /\ RepoInit({"r2"})

FrameNext ==
    \/ \E name \in Names : Remove(name) /\ UNCHANGED projVars
    \/ \E name \in Names : Update(name, DirAt(TreeV2)) /\ UNCHANGED projVars
    \/ \E name \in Names : Add(name, LocalSource, DirAt(TreeV1), "m1") /\ UNCHANGED projVars
    \/ \E name \in MemberBundles : AddBundle(name, <<"a">>, "d1") /\ UNCHANGED projVars
    \/ \E name \in MemberBundles, add \in {<<>>, <<"b">>}, remove \in {<<>>, <<"a">>} :
         UpdateBundle(name, add, remove, "") /\ UNCHANGED projVars
    \/ \E name \in MemberBundles : RemoveBundle(name) /\ UNCHANGED projVars

FrameSpec == FrameInit /\ [][FrameNext]_vars

\* Specification of the project manifest: references that an attached
\* registry defines are added to and removed from the manifest with every
\* combination of entry options.
TomlInit == ProjInit /\ RepoInit({"r2"})

TomlNext ==
    \/ \E name \in Names, entry \in FilterEntries \cup PinEntries :
         ManifestAdd(name, entry, FALSE) /\ UNCHANGED repoVars
    \/ \E name \in Names : ManifestRemove(name) /\ UNCHANGED repoVars

TomlSpec == TomlInit /\ [][TomlNext]_vars

\* Specification of the MCP server: a server is started with either scope,
\* inside or outside a project, and its tools are called while references
\* are added to and removed from the central repository and the project's
\* manifest is edited from the command line.
McpInit == ProjInit /\ RepoInit({"r1"})

McpNext ==
    \/ Add("b", LocalSource, DirAt(TreeV1), "m1") /\ UNCHANGED projVars
    \/ Remove("b") /\ UNCHANGED projVars
    \/ \E name \in Names : ManifestRemove(name) /\ UNCHANGED repoVars
    \/ \E scope \in Scopes, inProject \in BOOLEAN :
         McpStart(scope, inProject) /\ UNCHANGED repoVars
    \/ McpStop /\ UNCHANGED repoVars
    \/ \E name \in Names : McpAddToProject(name) /\ UNCHANGED repoVars
    \/ \E tool \in ReadTools, name \in Names : McpRead(tool, name) /\ UNCHANGED repoVars

McpSpec == McpInit /\ [][McpNext]_vars

\* Specification of a data directory from its first use: it starts without
\* history, with or without a .gitignore and a config.toml of the user, and
\* every later invocation works on the opened repository.
FreshIgnores == {<<>>, <<"*.bak">>, <<CONFIGTOML>>}

FreshInit ==
    /\ ProjInit
    /\ index = <<>>
    /\ content = [n \in Names |-> Absent]
    /\ commits = <<>>
    /\ tags = [t \in TagNames |-> 0]
    /\ regDirs = {}
    /\ remotes = load_remote_registries({})
    /\ config = <<>>
    /\ last = Result("none", "", TRUE, NoRef)
    /\ bundles = <<>>
    /\ \E lines \in FreshIgnores, cfg \in BOOLEAN :
         root = [gitignore |-> lines, config |-> cfg]
    /\ targetReg = init_new

Opened1 == commits # <<>>

FreshNext ==
    \/ Open /\ UNCHANGED projVars
    \/ Opened1 /\ ConfigSet /\ UNCHANGED projVars
    \/ /\ Opened1
       /\ \E st \in {Missing, DirAt(TreeV1)} : Add("a", LocalSource, st, "m1")
       /\ UNCHANGED projVars
    \/ Opened1 /\ Remove("a") /\ UNCHANGED projVars
    \/ Opened1 /\ Update("a", DirAt(TreeV2)) /\ UNCHANGED projVars
    \/ Opened1 /\ (\E ok \in BOOLEAN : AddRegistry("r1", ok)) /\ UNCHANGED projVars
    \/ Opened1 /\ RemoveRegistry("r1") /\ UNCHANGED projVars
    \/ /\ Opened1
       /\ \E refs \in {<<"a">>, <<"a", "b">>} : AddBundle("k1", refs, "m1")
       /\ UNCHANGED projVars
    \/ Opened1 /\ RemoveBundle("k1") /\ UNCHANGED projVars

FreshSpec == FreshInit /\ [][FreshNext]_vars

\* Specification of pushing: references are added to, updated in and removed
\* from the local registry and pushed to an initialized target registry,
\* whose author commits now and then.
PushInit == ProjInit /\ RepoInit({})

PushNext ==
    \/ \E name \in Names, st \in {FileAt(1), DirAt(TreeV1), DirAt(EmptyTree)} :
         Add(name, LocalSource, st, "m1") /\ UNCHANGED projVars
    \/ \E name \in Names : Remove(name) /\ UNCHANGED projVars
    \/ \E name \in Names : Update(name, DirAt(TreeV2)) /\ UNCHANGED projVars
    \/ \E name \in Names : PushTo(name) /\ UNCHANGED projVars
    \/ TargetCommit /\ UNCHANGED projVars

PushSpec == PushInit /\ [][PushNext]_vars

\* Specification of the version history: references are added, updated and
\* removed in a repository with any set of attached registries, and the
\* history of either name is asked for in between.
VersionsInit == ProjInit /\ \E regs \in SUBSET RegNames : RepoInit(regs)

VersionsNext ==
    \/ \E name \in Names, st \in {Missing, FileAt(1), DirAt(TreeV1)} :
         Add(name, LocalSource, st, "m1") /\ UNCHANGED projVars
    \/ \E name \in Names : Remove(name) /\ UNCHANGED projVars
    \/ \E name \in Names, st \in {DirAt(TreeV1), DirAt(TreeV2)} :
         Update(name, st) /\ UNCHANGED projVars
    \/ \E name \in Names : Versions(name) /\ UNCHANGED projVars

VersionsSpec == VersionsInit /\ [][VersionsNext]_vars

\* Specification of purging: one reference is in the repository; the project
\* lists it with or without a path override, syncs it, and removes it with
\* or without --purge.
PurgeEntries == {DefaultEntry, Entry(<<"vendor">>, NoVersion, <<>>, <<>>),
                 Entry(<<"vendor", "a">>, NoVersion, <<G_MD>>, <<>>)}

PurgeInit ==
    /\ ProjInit
    /\ RepoInit({})

PurgeNext ==
    \/ \E name \in Names :
         sync.pc = "idle" /\ Add(name, LocalSource, DirAt(TreeV1), "m1")
                          /\ UNCHANGED projVars
    \/ \E name \in Names, entry \in PurgeEntries, syncNow \in BOOLEAN :
         ManifestAdd(name, entry, syncNow) /\ UNCHANGED repoVars
    \/ \E name \in Names : ManifestRemove(name) /\ UNCHANGED repoVars
    \/ \E name \in Names : ManifestRemovePurge(name) /\ UNCHANGED repoVars
    \/ \E nameOpt \in Names \cup {""} : SyncStart(nameOpt, FALSE)
    \/ SyncEntry
    \/ SyncReturn

PurgeSpec == PurgeInit /\ [][PurgeNext]_vars

\* Specification of sync with a name: two references with different content
\* are in the repository; the project lists them with default targets or
\* with path overrides, some of which meet another entry's target, and
\* syncs one entry or all.
NamedEntries == {DefaultEntry, Entry(<<"b">>, NoVersion, <<>>, <<>>),
                 Entry(<<"b", "sub">>, NoVersion, <<>>, <<>>),
                 Entry(<<"vendor">>, NoVersion, <<>>, <<>>)}

NamedInit == ProjInit /\ RepoInit({})

NamedNext ==
    \/ sync.pc = "idle" /\ Add("a", LocalSource, DirAt(TreeV1), "m1") /\ UNCHANGED projVars
    \/ sync.pc = "idle" /\ Add("b", LocalSource, DirAt(TreeV2), "m1") /\ UNCHANGED projVars
    \/ \E entry \in NamedEntries : ManifestAdd("a", entry, FALSE) /\ UNCHANGED repoVars
    \/ ManifestAdd("b", DefaultEntry, FALSE) /\ UNCHANGED repoVars
    \/ \E name \in Names : ManifestRemove(name) /\ UNCHANGED repoVars
    \/ \E nameOpt \in Names \cup {""}, force \in BOOLEAN : SyncStart(nameOpt, force)
    \/ SyncEntry
    \/ SyncReturn

NamedSpec == NamedInit /\ [][NamedNext]_vars

\* Specification of pinned syncs against revisions that lack the content:
\* the registry r1, which defines a, is attached; a is added to and removed
\* from the local registry and the history is tagged at any point; the
\* project lists a pinned or not and syncs.
ArchiveInit == ProjInit /\ RepoInit({"r1"})

ArchiveNext ==
    \/ sync.pc = "idle" /\ Add("a", LocalSource, DirAt(TreeV1), "m1") /\ UNCHANGED projVars
    \/ sync.pc = "idle" /\ Remove("a") /\ UNCHANGED projVars
    \/ \E tag \in TagNames : sync.pc = "idle" /\ CreateTag(tag) /\ UNCHANGED projVars
    \/ \E entry \in PinEntries : ManifestAdd("a", entry, FALSE) /\ UNCHANGED repoVars
    \/ ManifestRemove("a") /\ UNCHANGED repoVars
    \/ \E force \in BOOLEAN : SyncStart("", force)
    \/ SyncEntry
    \/ SyncReturn

ArchiveSpec == ArchiveInit /\ [][ArchiveNext]_vars

\* Specification of interrupted writes: an add or an update may stop between
\* save_index and its commit; adds, updates, removes and bundle writes
\* follow.
LeftoverInit == ProjInit /\ RepoInit({})

LeftoverNext ==
    \/ \E name \in Names : Add(name, LocalSource, DirAt(TreeV1), "m1") /\ UNCHANGED projVars
    \/ AddInterrupted("a", LocalSource, DirAt(TreeV1), "m1") /\ UNCHANGED projVars
    \/ Update("a", DirAt(TreeV2)) /\ UNCHANGED projVars
    \/ UpdateInterrupted("a", DirAt(TreeV2)) /\ UNCHANGED projVars
    \/ Remove("a") /\ UNCHANGED projVars
    \/ AddBundle("k1", <<"a">>, "m1") /\ UNCHANGED projVars

LeftoverSpec == LeftoverInit /\ [][LeftoverNext]_vars

\* Specification of updates: references with a local or a git source are
\* added and updated while their sources move on (the upstream repository
\* is at Clone1 or at Clone2 when it is cloned).
ChecksumStates(source) ==
    IF source.type = "local" THEN {Missing, DirAt(TreeV1), DirAt(TreeV2)}
    ELSE IF source.type = "git" THEN {Missing, RepoAt(Clone1), RepoAt(Clone2)}
    ELSE {Missing}

ChecksumInit == ProjInit /\ RepoInit({})

ChecksumNext ==
    \/ \E name \in Names, source \in {LocalSource, GitSource} :
         \E st \in ChecksumStates(source) :
            Add(name, source, st, "m1") /\ UNCHANGED projVars
    \/ \E name \in Names : \E st \in ChecksumStates(LocalGet(name).source) :
         Update(name, st) /\ UNCHANGED projVars
    \/ \E name \in Names : Remove(name) /\ UNCHANGED projVars

ChecksumSpec == ChecksumInit /\ [][ChecksumNext]_vars

\* Specification of version extracts: two references with different content
\* are added and tagged, the project pins them, and a sync may be killed
\* while the extract of an entry is on disk.
ExtractEntries == {Entry(NoPath, "v1", <<>>, <<>>), Entry(NoPath, "v1", <<G_MD>>, <<>>)}

ExtractInit == ProjInit /\ RepoInit({})

ExtractNext ==
    \/ sync.pc = "idle" /\ Add("a", LocalSource, DirAt(TreeV1), "m1") /\ UNCHANGED projVars
    \/ sync.pc = "idle" /\ Add("b", LocalSource, DirAt(TreeV2), "m1") /\ UNCHANGED projVars
    \/ \E tag \in TagNames : sync.pc = "idle" /\ CreateTag(tag) /\ UNCHANGED projVars
    \/ \E name \in Names, entry \in ExtractEntries :
         ManifestAdd(name, entry, FALSE) /\ UNCHANGED repoVars
    \/ \E nameOpt \in Names \cup {""} : SyncStart(nameOpt, FALSE)
    \/ SyncEntry
    \/ SyncKilled
    \/ SyncReturn

ExtractSpec == ExtractInit /\ [][ExtractNext]_vars

TypeOK ==
    Len(commits) <= 1 + MaxRefCommits + MaxRegCommits + MaxBundleCommits + Cardinality(RegNames)

\* ================================================================ claims
\* C1: in every reachable state, every reference of the local index has a
\* content/<name>/ directory that exists and is non-empty.
C1_IndexedContentNonEmpty ==
    \A n \in DOMAIN index : content[n].ex /\ content[n].files # {}

\* the remotes of the instance that define name, and what they resolve to
RemoteHit(name) == ResolveIn(remotes, name)

\* C2 (as stated): after remove(name) returned success, get(name) is absent
\* and content_path(name) does not exist, whatever registries are attached.
C2_RemoveThenAbsent ==
    (last.op = "remove" /\ last.ok) =>
        (~resolve(last.name).found /\ ~content[last.name].ex)

\* C2 (amended): after remove(name) returned success the local registry no
\* longer holds name and content_path(name) does not exist; get(name) is
\* absent when no attached remote defines name and is that remote's
\* reference otherwise.
C2_RemoveThenNotLocal ==
    (last.op = "remove" /\ last.ok) =>
        /\ ~LocalHas(last.name)
        /\ ~content[last.name].ex
        /\ resolve(last.name).registry_name # "local"
        /\ (\A i \in 1..Len(remotes) : ~RemoteHas(remotes[i], last.name))
               => ~resolve(last.name).found
        /\ (\E i \in 1..Len(remotes) : RemoteHas(remotes[i], last.name))
               => /\ resolve(last.name).found
                  /\ resolve(last.name).registry_name \in
                        {remotes[i] : i \in 1..Len(remotes)}
                  /\ get(last.name).meta = resolve(last.name).registry_name

C2_Witness ==
    /\ last.op = "remove" /\ last.ok
    /\ \E i \in 1..Len(remotes) : RemoteHas(remotes[i], last.name)

\* C3: after add(R) returned success, get(R.name) is R (kind, source,
\* description and tags included) and content_path(R.name) exists on disk.
C3_AddThenGet ==
    (last.op = "add" /\ last.ok) =>
        /\ resolve(last.name).found
        /\ get(last.name) = last.arg
        /\ get(last.name).name = last.name
        /\ DirAtPath(resolve(last.name).content_path).ex
        /\ content[last.name].ex

C3_Witness ==
    /\ last.op = "add" /\ last.ok
    /\ last.arg.kind = "git_repo"
    /\ \E i \in 1..Len(remotes) : RemoteHas(remotes[i], last.name)

\* the attached remotes that define name
Definers(name) == {remotes[i] : i \in {j \in 1..Len(remotes) : RemoteHas(remotes[j], name)}}

\* C4: a name of the local registry resolves to "local" and to the local
\* content/<name>, whether or not a remote defines it too; a name that only
\* remote R defines resolves to R and to a content path inside R.
C4_LocalFirstThenRemote ==
    /\ \A A \in DOMAIN index :
          /\ resolve(A).found
          /\ resolve(A).registry_name = "local"
          /\ resolve(A).content_path = <<"local", "content", A>>
          /\ resolve(A).reference = index[A]
    /\ \A B \in Names \ DOMAIN index : \A R \in RegNames :
          Definers(B) = {R} =>
              /\ resolve(B).found
              /\ resolve(B).registry_name = R
              /\ resolve(B).content_path = <<R, "content", B>>
              /\ resolve(B).reference = RemoteRef(R, B)

C4_Witness ==
    /\ \E A \in DOMAIN index : Definers(A) # {}
    /\ \E B \in Names \ DOMAIN index : \E R \in RegNames : Definers(B) = {R}

\* C5: in every reachable state of one instance, a name that is absent
\* locally and defined by several attached remotes resolves to the remote
\* whose name sorts first.
C5_RemotesInNameOrder ==
    \A name \in Names \ DOMAIN index :
        Definers(name) # {} =>
            /\ resolve(name).found
            /\ \A R \in Definers(name) : Rank(resolve(name).registry_name) <= Rank(R)

\* whether an entry's filters let the relative path p through
Passes(entry, p) ==
    /\ entry.include = <<>> \/ \E i \in 1..Len(entry.include) : GlobMatch(entry.include[i], p)
    /\ \A i \in 1..Len(entry.exclude) : ~GlobMatch(entry.exclude[i], p)

\* the files of a tree that pass an entry's filters, placed under target
Materialized(target, tree, entry) ==
    {<<target, f[1], f[2]>> : f \in {g \in tree : Passes(entry, g[1])}}

\* what git holds for content/<name> at the commit a tag names
CommittedAt(version, name) == commits[tags[version]].content[name].files

\* the current content of the registry for name
CurrentContent(name) == DirAtPath(CliResolve(name).content_path).files

\* the tree an entry's sync reads: the pinned revision, else the current content
SyncSource(name, entry) ==
    IF entry.version # NoVersion THEN CommittedAt(entry.version, name)
    ELSE CurrentContent(name)

\* C6 (as stated): whenever sync counts an entry as synced, a pinned entry's
\* target holds content/<name> as committed at the pin, whatever was updated
\* since, and an unpinned entry's target holds the current content.
C6_PinnedAtTagElseCurrent ==
    [][(sync.pc = "running" /\ sync'.out.kind \in {"replaced", "up_to_date"}) =>
          LET o == sync'.out
          IN FilesUnder(projFiles', o.target)
                 = Materialized(o.target, SyncSource(o.name, o.entry), o.entry)]_vars

\* C6 (amended): a pinned entry's target holds content/<name> as committed
\* at the pin, whatever was updated since; an unpinned entry's target holds
\* the current content when sync replaces it, and is left as it was when
\* sync takes the up-to-date path (no --force, target and content both git
\* repositories with the same HEAD), even if the content's files differ.
C6_PinnedAtTagElseCurrentOrSkipped ==
    [][(sync.pc = "running" /\ sync'.out.kind \in {"replaced", "up_to_date"}) =>
          LET o == sync'.out
          IN /\ o.kind = "replaced" =>
                   FilesUnder(projFiles', o.target)
                       = Materialized(o.target, SyncSource(o.name, o.entry), o.entry)
             /\ o.entry.version # NoVersion => o.kind = "replaced"
             /\ o.kind = "up_to_date" =>
                   /\ projFiles' = projFiles /\ projDirs' = projDirs
                   /\ ~sync.force
                   /\ OwnHead(CurrentContent(o.name)) = OwnHead(TargetDir(o.target).files)]_vars

C6_Witness ==
    /\ sync.pc = "done" /\ sync.out.kind = "replaced"
    /\ sync.out.entry.version = "v1"
    /\ LocalHas(sync.out.name)
    /\ content[sync.out.name].ex
    /\ content[sync.out.name].files # CommittedAt("v1", sync.out.name)
    /\ CommittedAt("v1", sync.out.name) # {}
    /\ FilesUnder(projFiles, sync.out.target)
           = Materialized(sync.out.target, CommittedAt("v1", sync.out.name), sync.out.entry)

\* C7: sync processes every resolved entry exactly once, in order; each
\* entry increments exactly one of synced and failed; a running sync always
\* has a next entry; at the end synced + failed is the number of entries and
\* the sync returns success, whatever failed.
C7_EveryEntryCounted ==
    /\ sync.synced + sync.failed = Len(sync.done)
    /\ Len(sync.done) + Len(sync.queue) = sync.total
    /\ \A i, j \in 1..Len(sync.done) : sync.done[i] = sync.done[j] => i = j
    /\ sync.pc = "running" =>
          /\ sync.queue # <<>>
          /\ \/ sync.done \o sync.queue = KeysInOrder(DOMAIN manifest)
             \/ sync.total = 1 /\ Head(sync.done \o sync.queue) \in DOMAIN manifest
    /\ (sync.pc = "done" /\ sync.total > 0) =>
          /\ sync.ok
          /\ sync.queue = <<>>
          /\ sync.synced + sync.failed = sync.total

C7_Witness ==
    /\ sync.pc = "done" /\ sync.total = 2 /\ sync.ok
    /\ sync.failed = 1 /\ sync.synced = 1
    /\ sync.out.kind \in {"unknown", "version_failed", "no_content", "copy_failed"}

\* C8: when sync copies a directory source, a file with relative path p is
\* in the target if and only if include is empty or p matches an include
\* glob, and p matches no exclude glob.
C8_CopiedIffPassesFilters ==
    [][(sync.pc = "running" /\ sync'.out.kind = "replaced") =>
          LET o == sync'.out
          IN \A f \in SyncSource(o.name, o.entry) :
                (<<o.target, f[1], f[2]>> \in projFiles') <=> Passes(o.entry, f[1])]_vars

C8_Witness ==
    /\ sync.pc = "done" /\ sync.out.kind = "replaced"
    /\ sync.out.entry.include = <<G_SRC, G_DEEPMD>> /\ sync.out.entry.exclude = <<G_UTIL>>
    /\ CurrentContent(sync.out.name) = TreeV1
    /\ <<sync.out.target, LIBRS, 1>> \in projFiles
    /\ <<sync.out.target, README, 1>> \in projFiles
    /\ <<sync.out.target, GUIDE, 1>> \in projFiles
    /\ <<sync.out.target, UTILRS, 1>> \notin projFiles
    /\ <<sync.out.target, NOTES, 1>> \notin projFiles

\* C9: after sync replaced an entry's target, the files under the target are
\* exactly the source files that pass the entry's filters: nothing that was
\* under the target before survives, with or without --force.
C9_TargetIsExactlyFilteredSource ==
    [][(sync.pc = "running" /\ sync'.out.kind = "replaced") =>
          LET o == sync'.out
          IN FilesUnder(projFiles', o.target)
                 = Materialized(o.target, SyncSource(o.name, o.entry), o.entry)]_vars

C9_Witness ==
    /\ sync.pc = "done" /\ sync.out.kind = "replaced" /\ ~sync.force
    /\ <<sync.out.target, STRAY, 9>> \in sync.out.before
    /\ <<sync.out.target, NOTES, 1>> \in sync.out.before
    /\ CurrentContent(sync.out.name) = TreeV2
    /\ FilesUnder(projFiles, sync.out.target)
           = Materialized(sync.out.target, TreeV2, sync.out.entry)

\* C10: for a git-sourced reference of the local registry whose target
\* holds what a first sync materialized, a sync without --force and without
\* a pin takes the up-to-date path: the entry is counted as synced and the
\* target is neither deleted nor copied.
C10_SecondSyncUpToDate ==
    [][(/\ sync.pc = "running"
        /\ ~sync.force
        /\ LET name == Head(sync.queue)
               entry == manifest[name]
               target == IF entry.path # NoPath THEN entry.path ELSE <<name>>
           IN /\ LocalHas(name) /\ index[name].source.type = "git"
              /\ entry = DefaultEntry
              /\ content[name].ex /\ content[name].files # {}
              /\ TargetExists(target)
              /\ FilesUnder(projFiles, target)
                     = Materialized(target, content[name].files, entry))
          => /\ sync'.out.kind = "up_to_date"
             /\ sync'.synced = sync.synced + 1
             /\ projFiles' = projFiles]_vars

\* C12: add_bundle(B) fails when a member of B resolves in no registry, a
\* failed add_bundle leaves the local index as it was, and after a successful
\* add_bundle get_bundle(B.name) is B, reference list in the same order.
C12_AddBundleAllOrNothing ==
    [][last'.op = "add_bundle" =>
          LET B == last'.bundle
          IN /\ (\E i \in 1..Len(B.references) : ~resolve(B.references[i]).found)
                   => ~last'.ok
             /\ ~last'.ok => (index' = index /\ bundles' = bundles)
             /\ last'.ok =>
                   /\ GetBundleIn(bundles', remotes', B.name) = B
                   /\ GetBundleIn(bundles', remotes', B.name).references = B.references]_vars

C12_Witness ==
    /\ last.op = "add_bundle" /\ last.ok
    /\ Len(last.bundle.references) = 2
    /\ last.bundle.references[1] # last.bundle.references[2]
    /\ \E i \in 1..Len(remotes) : last.name \in RemoteBundleNames(remotes[i])

\* how often m occurs in a reference list
Count(refs, m) == Cardinality({i \in 1..Len(refs) : refs[i] = m})

\* the members a list had before, in their order, without the removed ones
KeptOrder(before, after, remove) ==
    SubSeq(after, 1, Len(RetainRefs(before, remove))) = RetainRefs(before, remove)

\* C13 (as stated): after a successful update_bundle, applying the same
\* update again changes nothing, a member added (and not removed) occurs
\* exactly once, the members the bundle had keep their order, and every
\* name given in remove is absent.
C13_AddOnceRemoveAll ==
    [][(last'.op = "update_bundle" /\ last'.ok) =>
          LET call == last'.bundle
              before == bundles[call.name]
              after == bundles'[call.name]
          IN /\ UpdatedBundle(after, call.references, last'.rm, call.meta) = after
             /\ \A m \in Range(call.references) \ Range(last'.rm) :
                   Count(after.references, m) = 1
             /\ KeptOrder(before.references, after.references, last'.rm)
             /\ \A r \in Range(last'.rm) : r \notin Range(after.references)]_vars

\* C13 (amended): as above, but a member added (and not removed) occurs
\* once if the bundle did not list it, and as often as before if it did: a
\* bundle created with a repeated member keeps the repetition.
C13_AddIdempotentRemoveAll ==
    [][(last'.op = "update_bundle" /\ last'.ok) =>
          LET call == last'.bundle
              before == bundles[call.name]
              after == bundles'[call.name]
          IN /\ UpdatedBundle(after, call.references, last'.rm, call.meta) = after
             /\ \A m \in Range(call.references) \ Range(last'.rm) :
                   Count(after.references, m)
                       = IF Count(before.references, m) = 0 THEN 1
                         ELSE Count(before.references, m)
             /\ KeptOrder(before.references, after.references, last'.rm)
             /\ \A r \in Range(last'.rm) : r \notin Range(after.references)]_vars

C13_Witness ==
    /\ last.op = "update_bundle" /\ last.ok
    /\ last.bundle.references = <<"a">> /\ last.rm = <<"b">>
    /\ LocalHasBundle(last.name)
    /\ bundles[last.name].references = <<"a">>
    /\ Len(commits) > 1 /\ HeadOf(commits).msg[1] = "Update bundle"
    /\ commits[Len(commits) - 1].bundles[last.name].references = <<"b", "a">>

\* the names of a sequence, each once
NoRepeats(q) == \A i, j \in 1..Len(q) : q[i] = q[j] => i = j

\* C11: a sync works on one entry per name that is explicit or contributed
\* by a listed bundle: the explicit entry when there is one, else a default
\* entry; a name that is explicit with a path override and also contributed
\* by a bundle is materialized at the override path, and the sync leaves
\* .references/<name> as it was (absent when it was absent).
C11_ExplicitWinsOverBundle ==
    [][sync.pc = "running" =>
          LET o == sync'.out
              n == o.name
              all == DOMAIN manifest \cup Contributed(mbundles)
          IN /\ NoRepeats(sync.done \o sync.queue)
             /\ Range(sync.done \o sync.queue) \subseteq all
             /\ sync.total > 1 => Range(sync.done \o sync.queue) = all
             /\ sync.total = Len(sync.done) + Len(sync.queue)
             /\ n = Head(sync.queue)
             /\ o.entry = IF n \in DOMAIN manifest THEN manifest[n] ELSE DefaultEntry
             /\ o.target = IF o.entry.path # NoPath THEN o.entry.path ELSE <<n>>
             /\ (n \in DOMAIN manifest /\ n \in Contributed(mbundles)
                    /\ manifest[n].path # NoPath) =>
                   /\ o.target = manifest[n].path
                   /\ FilesUnder(projFiles', <<n>>) = FilesUnder(projFiles, <<n>>)
                   /\ <<n>> \in projDirs' <=> <<n>> \in projDirs
                   /\ o.kind = "replaced" =>
                         FilesUnder(projFiles', o.target)
                             = Materialized(o.target, CurrentContent(n), o.entry)]_vars

C11_Witness ==
    /\ sync.pc = "done" /\ sync.done = <<"a", "b">>
    /\ sync.out.name = "b" /\ sync.out.kind = "replaced" /\ sync.out.entry = DefaultEntry
    /\ DOMAIN manifest = {"a"} /\ manifest["a"].path = DOCS
    /\ "a" \in Contributed(mbundles) /\ "b" \in Contributed(mbundles)
    /\ FilesUnder(projFiles, DOCS) = Materialized(DOCS, TreeV1, manifest["a"])
    /\ FilesUnder(projFiles, <<"b">>) # {}
    /\ <<"a">> \notin projDirs

\* the local bundles that list name
BundlesWith(name) == {k \in DOMAIN bundles : name \in Range(bundles[k].references)}

\* C14: remove(name) of a local reference that a bundle lists succeeds and
\* leaves every bundle's list as it was; a sync of a project that lists the
\* bundle counts a member that resolves nowhere as failed, touches nothing
\* for it, and materializes the members that resolve.
C14_DanglingMemberTolerated ==
    [][/\ (last'.op = "remove" /\ LocalHas(last'.name) /\ BundlesWith(last'.name) # {})
            => (last'.ok /\ bundles' = bundles)
       /\ (sync.pc = "running" /\ sync'.out.name \notin DOMAIN manifest) =>
            LET o == sync'.out
            IN IF ~CliResolve(o.name).found
               THEN /\ o.kind = "unknown"
                    /\ sync'.failed = sync.failed + 1 /\ sync'.synced = sync.synced
                    /\ projFiles' = projFiles /\ projDirs' = projDirs
               ELSE /\ o.kind = "replaced"
                    /\ sync'.synced = sync.synced + 1 /\ sync'.failed = sync.failed
                    /\ FilesUnder(projFiles', o.target)
                           = Materialized(o.target, CurrentContent(o.name), o.entry)]_vars

\* C15 (as stated): for every tag and kind filter, every reference that
\* list(tag, kind) returns is also returned by list(None, None) and
\* satisfies both filters, whatever the local and the attached registries
\* define.
C15_FilteredIsSubset ==
    \A tag \in TagFilters, kind \in KindFilters :
        \A r \in Range(list(tag, kind)) :
            /\ r \in Range(list("", ""))
            /\ tag # "" => tag \in TagsOf(r.meta)
            /\ kind # "" => r.kind = kind

\* the names of a list of references, in order
NamesOf(refs) == [i \in 1..Len(refs) |-> refs[i].name]

ListedRegistries == Range(remotes)
ConfigRegistries == Range(config)

\* C17: a successful add_registry(name) adds exactly name to the listed and
\* the configured registry names, and a successful remove_registry(name)
\* that follows it takes exactly name away again: both sets, and the
\* registries a reopened store loads, are what they were before the add.
C17_AddThenRemoveRegistry ==
    [][/\ (last'.op = "add_registry" /\ last'.ok) =>
            /\ last'.name \notin ListedRegistries \cup ConfigRegistries \cup regDirs
            /\ ListedRegistries' = ListedRegistries \cup {last'.name}
            /\ ConfigRegistries' = ConfigRegistries \cup {last'.name}
            /\ HeadOf(commits').regs = regDirs'
            /\ commits'[Len(commits') - 1].regs = regDirs
       /\ (/\ last.op = "add_registry" /\ last.ok
           /\ last'.op = "remove_registry" /\ last'.ok /\ last'.name = last.name) =>
            LET before == commits[Len(commits) - 1].regs
            IN /\ ListedRegistries' = ListedRegistries \ {last.name}
               /\ ConfigRegistries' = ConfigRegistries \ {last.name}
               /\ ListedRegistries' = before /\ ConfigRegistries' = before
               /\ regDirs' = before
               /\ Range(load_remote_registries(regDirs')) = before]_vars

C17_Witness ==
    /\ last.op = "remove_registry" /\ last.ok /\ last.name = "r1"
    /\ Len(commits) = 4
    /\ commits[2].msg = <<"Add registry", "r2">>
    /\ commits[3].msg = <<"Add registry", "r1">>
    /\ commits[4].msg = <<"Remove registry", "r1">>
    /\ ListedRegistries = {"r2"} /\ ConfigRegistries = {"r2"} /\ regDirs = {"r2"}

\* C18: add_registry fails for the name "local", for a name with a
\* character outside the allowed set, and for a name whose
\* registries/<name> exists; the failed call adds no submodule and leaves
\* the remotes list and config.registries as they were.
C18_AddRegistryRejects ==
    [][last'.op = "add_registry" =>
          /\ (\/ last'.name = "local"
              \/ ~validate_name(last'.name)
              \/ last'.name \in regDirs) => ~last'.ok
          /\ ~last'.ok => /\ regDirs' = regDirs /\ commits' = commits
                          /\ remotes' = remotes /\ config' = config]_vars

C18_Witness ==
    /\ last.op = "add_registry" /\ ~last.ok /\ last.name \in regDirs
    /\ remotes = <<"r2", "r1">> /\ config = <<"r2", "r1">>
    /\ Len(commits) = 3

\* the sources a later add can use: a readable directory, a url that clones
ValidAdds == {<<LocalSource, DirAt(TreeV1)>>, <<GitSource, RepoAt(Clone1)>>}

\* C19: an add that returns an error leaves the local index (in memory and
\* in index.toml, so also what the next commit records) and content/<name>
\* exactly as they were, and a later add of that name from a valid source
\* can fetch its content.
C19_FailedAddChangesNothing ==
    [][(last'.op = "add" /\ ~last'.ok) =>
          /\ index' = index
          /\ commits' = commits
          /\ last'.name \in Names =>
                /\ content'[last'.name] = content[last'.name]
                /\ ~LocalHas(last'.name) =>
                      \A v \in ValidAdds :
                          fetch_content(NewReference(last'.name, v[1], v[2], "m1", 0),
                                        content'[last'.name], v[2]).ok]_vars

LocalWrites == {"add", "remove", "update", "add_bundle", "update_bundle", "remove_bundle"}

C21_ManifestErrorsAndSave ==
    [][/\ (pcall'.op = "add_reference" /\ pcall'.name \in DOMAIN Opened.references) =>
            (~pcall'.ok /\ manifest' = Opened.references /\ toml' = toml)
       /\ (pcall'.op = "remove_reference" /\ pcall'.name \notin DOMAIN Opened.references) =>
            (~pcall'.ok /\ manifest' = Opened.references /\ toml' = toml)
       /\ (pcall'.op \in {"add_reference", "remove_reference"} /\ pcall'.ok) =>
            /\ from_toml(toml') = manifest'
            /\ toml'.bundles = mbundles'
            /\ manifest' # Opened.references]_vars

C21_Witness ==
    /\ pcall = PCall("add_reference", "a", FALSE)
    /\ DOMAIN manifest = {"a", "b"}
    /\ manifest["a"].exclude # <<>> /\ manifest["a"].include # <<>>
    /\ manifest["b"].path # NoPath
    /\ from_toml(toml) = manifest

\* a step in which the running server answered a tool call
ToolStep == mcp.up /\ mcp'.up /\ mcp'.call # mcp.call

\* C22: a tool call changes refstore.toml only when it is add_to_project,
\* the server's scope is read_write, the name resolves in the repository the
\* server holds and the server has a project store; with scope read_only no
\* tool call changes refstore.toml; and no tool call in either scope changes
\* the central repository's index, content or git history.
C22_AddToProjectGated ==
    [][ToolStep =>
          /\ toml' # toml =>
                /\ mcp'.call.tool = "add_to_project"
                /\ mcp.scope = "read_write"
                /\ McpGet(mcp'.call.name).found
                /\ mcp.project
          /\ mcp.scope = "read_only" => toml' = toml
          /\ index' = index /\ content' = content /\ commits' = commits
          /\ bundles' = bundles /\ tags' = tags]_vars

C22_Witness ==
    /\ mcp.up /\ mcp.scope = "read_write" /\ mcp.project
    /\ mcp.call = ToolCall("add_to_project", "b", TRUE)
    /\ "b" \in DOMAIN from_toml(toml)
    /\ ~resolve("b").found
    /\ Len(commits) > 2

\* C23: no commit of the repository root's history holds config.toml, and
\* once the history has its first commit .gitignore excludes config.toml.
C23_ConfigNeverCommitted ==
    /\ \A i \in 1..Len(commits) : CONFIGTOML \notin commits[i].files
    /\ commits # <<>> => Ignored(root.gitignore, CONFIGTOML)

\* a directory that had config.toml before its first commit, with a later
\* commit of a reference and one of a registry in its history
C23_Witness ==
    /\ root.config
    /\ \E i \in 1..Len(commits) : INDEXTOML \in commits[i].files
    /\ \E i \in 1..Len(commits) : GITMODULES \in commits[i].files
    /\ index # <<>>

C25_VersionsNewestFirst ==
    (last.op = "versions") =>
        LET n == last.name
            es == last.refs
        IN /\ last.ok <=> resolve(n).found
           /\ last.ok =>
                /\ \A i \in 1..Len(commits) :
                     (commits[i].content[n] # (IF i = 1 THEN NoCommitted
                                                ELSE commits[i - 1].content[n]))
                         <=> (\E k \in 1..Len(es) : es[k].hash = RootHash(i))
                /\ \A k, l \in 1..Len(es) : k < l => es[k].hash > es[l].hash
                /\ \A k \in 1..Len(es) :
                     \E i \in 1..Len(commits) :
                         es[k] = [hash |-> RootHash(i), message |-> commits[i].msg]
                /\ (/\ Len(commits) >= 2
                    /\ HeadOf(commits).msg = <<"Update reference", n>>
                    /\ commits[Len(commits) - 1].msg = <<"Add reference", n>>
                    /\ HeadOf(commits).content[n] # commits[Len(commits) - 1].content[n])
                     => /\ Len(es) = 2
                        /\ es[1].message = <<"Update reference", n>>
                        /\ es[2].message = <<"Add reference", n>>

\* the history of a reference that was added and then updated with changed
\* content
C25_Witness ==
    /\ last.op = "versions" /\ last.ok
    /\ Len(last.refs) = 2
    /\ last.refs[1].message[1] = "Update reference"
    /\ last.refs[2].message[1] = "Add reference"

\* C26: a `remove <name> --purge` that succeeds leaves the manifest without
\* an entry for name and the directory of the removed entry (its path
\* override when it has one, else .references/<name>) not existing.
C26_PurgeRemovesTarget ==
    [][(pcall'.op = "remove_purge" /\ pcall'.ok /\ toml' # toml) =>
        LET n == pcall'.name
            dir == target_dir(n, Opened.references[n])
        IN /\ n \notin DOMAIN manifest'
           /\ n \notin DOMAIN toml'.references
           /\ ~(\E d \in projDirs' : IsPrefix(dir, d))]_vars

\* what is at or below dir under .references: its files and directories
Below(files, dirs, dir) ==
    [files |-> FilesUnder(files, dir), dirs |-> {d \in dirs : IsPrefix(dir, d)}]

\* an iteration of a sync that was given a name
NamedIteration == sync.pc = "running" /\ sync.only # "" /\ sync'.done # sync.done

\* a sync that was given a name returns before the loop with an error
NamedFailure == sync.pc = "idle" /\ sync'.pc = "done" /\ sync'.only # "" /\ ~sync'.ok

\* C27 as stated: a sync with a name processes that entry and no other, and
\* leaves the targets of all other resolved entries as they were; a sync
\* whose name is not among the resolved entries fails and changes nothing
\* under .references.
C27_NamedSyncFrame ==
    [][/\ NamedIteration =>
            LET resolved == resolve_all_references(manifest, mbundles) IN
            /\ sync'.done = <<sync.only>> /\ sync'.pc = "done"
            /\ \A o \in DOMAIN resolved \ {sync.only} :
                 Below(projFiles', projDirs', target_dir(o, resolved[o]))
                     = Below(projFiles, projDirs, target_dir(o, resolved[o]))
       /\ NamedFailure =>
            /\ sync'.only \notin DOMAIN resolve_all_references(manifest', mbundles')
            /\ projFiles' = projFiles
            /\ projDirs' \ {<<>>} = projDirs \ {<<>>}]_vars

\* two directories of which neither is the other nor lies inside it
Apart(d, e) == ~IsPrefix(d, e) /\ ~IsPrefix(e, d)

\* C27 as amended: the targets left as they were are those of the other
\* resolved entries that lie apart from the named entry's target.
C27_NamedSyncFrameApart ==
    [][/\ NamedIteration =>
            LET resolved == resolve_all_references(manifest, mbundles)
                mine == target_dir(sync.only, resolved[sync.only])
            IN /\ sync'.done = <<sync.only>> /\ sync'.pc = "done"
               /\ \A o \in DOMAIN resolved \ {sync.only} :
                    Apart(target_dir(o, resolved[o]), mine) =>
                        Below(projFiles', projDirs', target_dir(o, resolved[o]))
                            = Below(projFiles, projDirs, target_dir(o, resolved[o]))
       /\ NamedFailure =>
            /\ sync'.only \notin DOMAIN resolve_all_references(manifest', mbundles')
            /\ projFiles' = projFiles
            /\ projDirs' \ {<<>>} = projDirs \ {<<>>}]_vars

\* a named sync has replaced its entry's target while another entry's
\* materialized target lies apart from it
C27_Witness ==
    /\ sync.pc = "done" /\ sync.only = "a" /\ sync.done = <<"a">>
    /\ sync.out.kind = "replaced"
    /\ DOMAIN manifest = {"a", "b"}
    /\ Apart(target_dir("a", manifest["a"]), <<"b">>)
    /\ FilesUnder(projFiles, <<"b">>) # {}

\* C28: when an iteration of sync reaches an entry that is pinned to a
\* revision which exists but whose commit does not hold content/<name>,
\* content_at_version returns an error, the entry is counted as failed and
\* not as synced, and nothing under .references changes.
C28_PinnedWithoutContentFails ==
    [][(sync.pc = "running" /\ sync'.done # sync.done) =>
        LET name == Head(sync.queue)
            entry == resolve_all_references(manifest, mbundles)[name]
        IN (/\ CliResolve(name).found
            /\ entry.version # NoVersion
            /\ ref_exists(entry.version)
            /\ commits[tags[entry.version]].content[name].kind = "absent")
           => /\ ~content_at_version(name, entry.version).ok
              /\ sync'.out.kind = "version_failed"
              /\ sync'.failed = sync.failed + 1
              /\ sync'.synced = sync.synced
              /\ projFiles' = projFiles
              /\ projDirs' = projDirs]_vars

\* a pinned entry failed on an existing tag while its target, materialized
\* by an earlier sync, is still there with its files
C28_Witness ==
    /\ sync.out.kind = "version_failed"
    /\ ref_exists(sync.out.entry.version)
    /\ commits[tags[sync.out.entry.version]].content[sync.out.name].kind = "absent"
    /\ FilesUnder(projFiles, sync.out.target) # {}

\* an add or update of name has saved index.toml and written content/<name>
\* and then failed, and index.toml is still ahead of HEAD
Interrupted ==
    /\ last.op \in {"add", "update"} /\ ~last.ok
    /\ LocalHas(last.name) /\ content[last.name].ex
    /\ HeadOf(commits).index # index

\* a write operation of the local registry returned Ok in this step
WriteSucceeded ==
    /\ last' # last
    /\ last'.ok
    /\ last'.op \in {"add", "update", "remove", "add_bundle", "update_bundle",
                      "remove_bundle"}

\* C29: when an add or update was interrupted between save_index and its
\* commit, the next successful write operation, on whatever name, leaves
\* index.toml and every content/<name> of the working tree equal to HEAD.
C29_LeftoverSwept ==
    [][(Interrupted /\ WriteSucceeded) =>
        /\ HeadOf(commits').index = index'
        /\ HeadOf(commits').bundles = bundles'
        /\ \A n \in Names : HeadOf(commits').content[n] = Committable(content'[n])]_vars

\* C30: an update of name that succeeds refreshes last_synced; when the
\* source is a git URL the stored checksum becomes HEAD of the repository the
\* update cloned, and when the source is local the checksum stays.
C30_ChecksumIsClonedHead ==
    [][\A name \in Names : \A st \in ChecksumStates(LocalGet(name).source) :
        (Update(name, st) /\ last'.ok) =>
            /\ index'[name].last_synced = Len(commits)
            /\ index[name].source.type = "git" =>
                    index'[name].checksum = OwnHead(st.tree)
            /\ index[name].source.type = "local" =>
                    index'[name].checksum = index[name].checksum]_vars

\* C31: when an iteration of sync replaces the target of a pinned entry,
\* every file under the target afterwards is a file that the pinned
\* revision holds under content/<name>: nothing of another reference or
\* revision that an earlier extraction left in .tmp-version-extract.
C31_ExtractIsClean ==
    [][(sync.pc = "running" /\ sync'.done # sync.done) =>
        LET name == Head(sync.queue)
            entry == resolve_all_references(manifest, mbundles)[name]
        IN (entry.version # NoVersion /\ sync'.out.kind = "replaced") =>
            \A f \in FilesUnder(projFiles', sync'.out.target) :
                <<f[2], f[3]>> \in commits[tags[entry.version]].content[name].files]_vars

\* a pinned entry was replaced from its extract while, before the iteration,
\* files of the other reference were in play: the entry is b, whose revision
\* has no src/util.rs, and a's extract had been left behind by a killed run
C31_Witness ==
    /\ sync.out.kind = "replaced" /\ sync.out.name = "b"
    /\ sync.out.entry.version # NoVersion
    /\ sync.runs = 2
    /\ FilesUnder(projFiles, <<"b">>) # {}
    /\ FilesUnder(projFiles, <<"a">>) = {}
    /\ tmp = Absent

\* Specification of add_to_project calls in flight on one server: the server
\* is started with either scope, inside or outside a project whose manifest
\* lists nothing, and each call's task takes its steps interleaved with the
\* others'. Between lock() and the return the function has no await point,
\* so a task that holds the guard runs on to its return; tokio's mutex hands
\* the lock to its waiters first come, first served.
MutexInit == ProjInit /\ RepoInit({"r2"})

MutexNext ==
    \/ \E scope \in Scopes, inProject \in BOOLEAN :
         McpStart(scope, inProject) /\ UNCHANGED repoVars
    \/ \E c \in CallIds, name \in {"a", "b", "c"} : CallBegin(c, name) /\ UNCHANGED repoVars
    \/ \E c \in CallIds : CallLock(c) /\ UNCHANGED repoVars
    \/ \E c \in CallIds : CallAdd(c) /\ UNCHANGED repoVars
    \/ \E c \in CallIds : CallReturn(c) /\ UNCHANGED repoVars

MutexSpec ==
    /\ MutexInit
    /\ [][MutexNext]_vars
    /\ \A c \in CallIds : /\ SF_vars(CallLock(c) /\ UNCHANGED repoVars)
                          /\ WF_vars(CallAdd(c) /\ UNCHANGED repoVars)
                          /\ WF_vars(CallReturn(c) /\ UNCHANGED repoVars)

\* the calls that got as far as add_reference for name and have returned
Returned(name) ==
    {c \in CallIds : /\ mcp.calls[c].pc = "done"
                     /\ mcp.calls[c].name = name
                     /\ mcp.calls[c].why \in {"", "exists"}}

\* at most one call is between lock() and its return, of the calls that have
\* returned for one name exactly one succeeded and the others got the
\* already-exists error, and every name a call succeeded for is in the
\* saved refstore.toml
Serialized ==
    /\ \A c, d \in CallIds :
         (mcp.calls[c].pc \in {"locked", "added"} /\ mcp.calls[d].pc \in {"locked", "added"})
            => c = d
    /\ \A name \in Names :
         Returned(name) # {} =>
            Cardinality({c \in Returned(name) : mcp.calls[c].ok}) = 1
    /\ \A c \in CallIds :
         (mcp.calls[c].pc = "done" /\ mcp.calls[c].ok) =>
            /\ mcp.calls[c].name \in DOMAIN from_toml(toml)
            /\ from_toml(toml)[mcp.calls[c].name] = DefaultEntry

\* C32: add_to_project calls in flight on one server are serialized by the
\* project mutex: of the calls made with one name exactly one succeeds and
\* the others get the already-exists error, the names of all successful
\* calls are in the saved refstore.toml, and every call that takes the
\* mutex releases it.
C32_MutexSerializes ==
    /\ []Serialized
    /\ \A c \in CallIds : (mcp.holder = c) ~> (mcp.holder # c)

\* two calls with the same name have both returned:
\* one success and one already-exists error, the mutex is free
C32_Witness ==
    /\ mcp.calls[1].pc = "done" /\ mcp.calls[2].pc = "done"
    /\ mcp.calls[1].name = "a" /\ mcp.calls[2].name = "a"
    /\ mcp.calls[1].why = "exists" /\ mcp.calls[2].ok
    /\ mcp.holder = 0
    /\ "a" \in DOMAIN from_toml(toml)

\* Specification of sync with path overrides that leave .references: one
\* reference is added to the repository; the manifest (refstore.toml as the user
\* can write it, or `refstore add --path`) gives it a path inside
\* .references, one that begins with "..", or an absolute one. Path::join
\* keeps the ".." components, which the operating system resolves against
\* the parent of .references, and an absolute path replaces the base: the
\* directory a file is recorded under is the joined path as it is resolved.
EscapeEntries == {DefaultEntry, Entry(<<"vendor">>, NoVersion, <<>>, <<>>),
                  Entry(<<"..", "src">>, NoVersion, <<>>, <<>>),
                  Entry(<<"/", "tmp", "out">>, NoVersion, <<G_MD>>, <<>>)}

EscapeInit == ProjInit /\ RepoInit({})

EscapeNext ==
    \/ sync.pc = "idle" /\ Add("a", LocalSource, DirAt(TreeV1), "m1") /\ UNCHANGED projVars
    \/ \E name \in Names, entry \in EscapeEntries :
         ManifestAdd(name, entry, FALSE) /\ UNCHANGED repoVars
    \/ \E name \in Names : ManifestRemove(name) /\ UNCHANGED repoVars
    \/ \E nameOpt \in Names \cup {""} : SyncStart(nameOpt, FALSE)
    \/ SyncEntry
    \/ SyncReturn

EscapeSpec == EscapeInit /\ [][EscapeNext]_vars

\* the directory lies under <project>/.references
UnderReferences(dir) == dir = <<>> \/ dir[1] \notin {"..", "/"}

\* C33: every file that an iteration of sync deletes or writes, and the
\* target directory it deletes or creates, lies under <project>/.references,
\* whatever the entry's path override is.
C33_SyncStaysUnderReferences ==
    [][(sync.pc = "running" /\ sync'.done # sync.done) =>
        /\ \A f \in (projFiles' \ projFiles) \cup (projFiles \ projFiles') :
              UnderReferences(f[1])
        /\ sync'.out.kind = "replaced" => UnderReferences(sync'.out.target)]_vars

\* C34: for every tag and kind filter, each reference that list(tag, kind)
\* returns is the reference resolve returns for its name: a remote
\* registry's entry is not listed for a name that the local registry or an
\* earlier remote defines, whether or not the shadowing entry passes the
\* filter.
C34_ListedIsResolved ==
    \A tag \in TagFilters, kind \in KindFilters :
        \A r \in Range(list(tag, kind)) :
            /\ resolve(r.name).found
            /\ resolve(r.name).reference = r

\* Specification of the file tools: a registry that defines a is attached,
\* b is added to and removed from the local registry, and a server answers
\* read_reference_file and list_reference_files calls whose path argument
\* names a file or directory of the reference, steps out of the content
\* directory with "..", or is absolute.
ToolPaths == {<<>>, <<"README.md">>, <<"src">>, <<"missing">>, <<"..">>,
              <<"..", "a", "README.md">>, <<"..", "..", "config.toml">>,
              <<"/", "etc">>, <<"/", "etc", "hostname">>}

TraversalInit == ProjInit /\ RepoInit({"r1"})

TraversalNext ==
    \/ Add("b", LocalSource, DirAt(TreeV1), "m1") /\ UNCHANGED projVars
    \/ Remove("b") /\ UNCHANGED projVars
    \/ \E scope \in Scopes : McpStart(scope, FALSE) /\ UNCHANGED repoVars
    \/ McpStop /\ UNCHANGED repoVars
    \/ \E tool \in {"read_reference_file", "list_reference_files"},
          reference \in Names, path \in ToolPaths :
         McpFile(tool, reference, path) /\ UNCHANGED repoVars

TraversalSpec == TraversalInit /\ [][TraversalNext]_vars

\* C35: what read_reference_file reads and list_reference_files lists is
\* the resolved content directory of the named reference or lies inside
\* it, whatever the path or subpath argument is.
C35_FileToolsStayInside ==
    (mcp.call.tool \in {"read_reference_file", "list_reference_files"} /\ mcp.call.ok)
        => IsPrefix(mcp.read.dir, mcp.read.at)

\* Specification of sync with entries that fail: one reference is added to
\* and removed from the repository or loses its cached content, and the
\* project's entry for it is replaced by one that pins a missing version or
\* has an invalid glob, between the syncs that materialize it.
BrokenInit == ProjInit /\ RepoInit({})

BrokenNext ==
    \/ sync.pc = "idle" /\ Add("a", LocalSource, DirAt(TreeV1), "m1") /\ UNCHANGED projVars
    \/ sync.pc = "idle" /\ Update("a", Missing) /\ UNCHANGED projVars
    \/ sync.pc = "idle" /\ Remove("a") /\ UNCHANGED projVars
    \/ \E entry \in SyncEntries : ManifestAdd("a", entry, FALSE) /\ UNCHANGED repoVars
    \/ ManifestRemove("a") /\ UNCHANGED repoVars
    \/ \E force \in BOOLEAN : SyncStart("", force)
    \/ SyncEntry
    \/ SyncReturn

BrokenSpec == BrokenInit /\ [][BrokenNext]_vars

\* C36: an iteration of sync that counts its entry as failed leaves the
\* entry's target directory under .references, with everything in it, as
\* it was.
C36_FailedKeepsTarget ==
    [][(sync.pc = "running" /\ sync'.done # sync.done /\ sync'.failed = sync.failed + 1) =>
        Below(projFiles', projDirs', sync'.out.target)
            = Below(projFiles, projDirs, sync'.out.target)]_vars

\* the entries of the sync that has finished, and the target of each
Processed == Range(sync.done)
TargetOf(name) == target_dir(name, resolve_all_references(manifest, mbundles)[name])

\* the i-th entry of the finished sync was counted as synced after its
\* source was copied
Copied(i) == sync.kinds[i] = "replaced"

\* the target of name holds the content of name, filtered by its entry
HoldsOwnContent(name) ==
    LET entry == resolve_all_references(manifest, mbundles)[name]
    IN FilesUnder(projFiles, TargetOf(name))
           = Materialized(TargetOf(name), SyncSource(name, entry), entry)

UnbundleEntries == {DefaultEntry, Entry(<<"b">>, NoVersion, <<>>, <<>>)}

UnbundleInit == ProjInit /\ RepoInit({"r2"})

UnbundleNext ==
    \/ sync.pc = "idle" /\ AddBundle("k2", <<"a", "b">>, "d1") /\ UNCHANGED projVars
    \/ \E entry \in UnbundleEntries : ManifestAdd("a", entry, FALSE) /\ UNCHANGED repoVars
    \/ ManifestRemove("a") /\ UNCHANGED repoVars
    \/ \E name \in {"k1", "k2"} : ManifestAddBundle(name, FALSE) /\ UNCHANGED repoVars
    \/ \E name \in {"k1", "k2"}, purge \in BOOLEAN :
         ManifestRemoveBundle(name, purge) /\ UNCHANGED repoVars
    \/ SyncStart("", FALSE)
    \/ SyncEntry
    \/ SyncReturn

UnbundleSpec == UnbundleInit /\ [][UnbundleNext]_vars

\* C38: a `remove --bundle <name> --purge` that fails because the bundle is
\* not listed in the manifest has deleted nothing under .references and
\* leaves refstore.toml as it was.
C38_FailedBundlePurgeChangesNothing ==
    [][\A name \in BundleNames :
          (ManifestRemoveBundle(name, TRUE) /\ ~pcall'.ok) =>
              /\ name \notin Range(Opened.bundles)
              /\ projFiles' = projFiles
              /\ projDirs' = projDirs
              /\ toml' = toml]_vars

\* C39: after a `remove --bundle B --purge` that succeeds, every reference
\* the manifest still resolves (an explicit entry, or a member of another
\* bundle it still lists) has its target directory under .references as it
\* was, and every directory that was deleted belonged to a member of B that
\* is no longer resolved.
C39_BundlePurgeKeepsResolved ==
    [][\A name \in BundleNames :
          (ManifestRemoveBundle(name, TRUE) /\ pcall'.ok) =>
              LET still == resolve_all_references(manifest', mbundles')
                  gone == Range(CliGetBundle(name).references) \ DOMAIN still
              IN /\ \A n \in DOMAIN still :
                      Below(projFiles', projDirs', target_dir(n, still[n]))
                          = Below(projFiles, projDirs, target_dir(n, still[n]))
                 /\ \A d \in projDirs \ projDirs' : \E n \in gone : IsPrefix(<<n>>, d)]_vars

====
